---- MODULE Spec2Model ----
(***************************************************************************)
(* A model of the WASI virtualization layer of vscode-agda.                *)
(*                                                                         *)
(* Part 1 (specification Spec): the stdin pipe, class WritableStream of    *)
(* src/src/web/wasm/streams.ts.  The stream lives in one JavaScript realm: *)
(* every method runs synchronously up to its first await, and the          *)
(* continuation of an await runs later, as a microtask, in the order in    *)
(* which the awaited promises were settled.  Callers may call the methods  *)
(* at any moment between two microtasks.                                   *)
(*                                                                         *)
(* Part 2 (specification CallSpec): the cross-thread call transport,       *)
(* HostConnection / WasiHost (worker side) and ServiceConnection / the     *)
(* service's poll_oneoff (coordinating side) of src/unnamed/part_003.      *)
(***************************************************************************)
EXTENDS Integers, Sequences, FiniteSets, TLC

\* ------------------------------------------------------------------------
\* Bounds of the model
\* ------------------------------------------------------------------------
MaxWrites == 3
MaxReads == 2
MaxWaits == 1
MaxCalls == 2
MaxSubs == 2
WaitTicks == 1
MaxFd == 5
MaxPathLen == 2
MaxCookie == 2
MaxOpen == 1
CloseFrom == 2
MaxListCalls == 4
MemSize == 4
MaxItemSize == 2
MaxParams == 2
MaxPolls == 1
MaxInits == 2
MaxRuns == 2
MaxProcesses == 2
MaxGetOrCreate == 3
MaxRequests == 4

\* ------------------------------------------------------------------------
\* Part 1: WritableStream
\* ------------------------------------------------------------------------
BufferSize == 16384

\* The chunk sizes a caller writes: small chunks, a chunk that nearly fills
\* the buffer, and a chunk larger than the buffer.
WriteSizes == {1, BufferSize - 1, BufferSize + 1}

\* The argument of read(size?): <<>> is the absent argument, <<n>> is size n.
ReadArgs == {<<>>, <<1>>, <<2>>}

Writers == 1..MaxWrites
Readers == 1..MaxReads
Waiters == 1..MaxWaits

\* An asynchronous call, and the promise it created in awaitFillLevel /
\* awaitData, are named by the call: <<"write", w>>, <<"read", r>>,
\* <<"wait", q>>.
WriteOp(w) == <<"write", w>>
ReadOp(r) == <<"read", r>>
WaitOp(q) == <<"wait", q>>
Ops ==
    {WriteOp(w) : w \in Writers} \cup {ReadOp(r) : r \in Readers}
        \cup {WaitOp(q) : q \in Waiters}

VARIABLES
    chunks,             \* this.chunks: the buffered byte ranges, in order
    fillLevel,          \* this.fillLevel
    awaitForFillLevel,  \* this.awaitForFillLevel: <<[fillLevel, promise]>>
    awaitForData,       \* this.awaitForData: sequence of promises
    readableBuffer,     \* readableBuffer[0], the shared 64-bit cell
    promise,            \* state of each promise: none/pending/resolved/rejected
    awaiting,           \* <<[op, promise]>>: suspended calls, in await order
    microtasks,         \* <<[op, outcome]>>: continuations ready to run
    wr,                 \* the write calls
    rd,                 \* the read calls
    wt,                 \* the waitRead calls
    destroyed,          \* destroy() has been called
    atDestroy,          \* history: the calls suspended when destroy() ran
    roundTrip,          \* history: so far only writes that fit, then reads
    lastOp              \* history: the last mutation and whether it signalled

pipeVars ==
    <<chunks, fillLevel, awaitForFillLevel, awaitForData, readableBuffer,
      promise, awaiting, microtasks, wr, rd, wt, destroyed,
      atDestroy, roundTrip, lastOp>>

\* A chunk is a range of the bytes of one write call: bytes from..to-1 of the
\* chunk written by call id.  subarray() yields a sub-range.  id 0 is a run
\* of zero bytes that no call wrote.
Slice(id, from, to) == [id |-> id, from |-> from, to |-> to]
ByteLength(c) == c.to - c.from

RECURSIVE TotalLength(_)
TotalLength(cs) ==
    IF cs = <<>> THEN 0 ELSE ByteLength(Head(cs)) + TotalLength(Tail(cs))

\* The byte sequence a sequence of ranges denotes: adjacent ranges of the
\* same chunk are joined, empty ranges dropped.
RECURSIVE Bytes(_)
Bytes(cs) ==
    IF cs = <<>> THEN <<>>
    ELSE LET c == Head(cs)
             rest == Bytes(Tail(cs))
         IN  IF ByteLength(c) = 0 THEN rest
             ELSE IF rest # <<>> /\ Head(rest).id = c.id /\ Head(rest).from = c.to
                  THEN <<Slice(c.id, c.from, Head(rest).to)>> \o Tail(rest)
                  ELSE <<c>> \o rest

\* The stream as one value, so that the helper methods compose.
Stream ==
    [chunks |-> chunks, fillLevel |-> fillLevel,
     awaitForFillLevel |-> awaitForFillLevel, awaitForData |-> awaitForData,
     readableBuffer |-> readableBuffer, promise |-> promise,
     awaiting |-> awaiting, microtasks |-> microtasks,
     signalled |-> FALSE]

SetStream(s) ==
    /\ chunks' = s.chunks
    /\ fillLevel' = s.fillLevel
    /\ awaitForFillLevel' = s.awaitForFillLevel
    /\ awaitForData' = s.awaitForData
    /\ readableBuffer' = s.readableBuffer
    /\ promise' = s.promise
    /\ awaiting' = s.awaiting
    /\ microtasks' = s.microtasks

\* promise.resolve() / promise.reject(): settling a pending promise queues
\* the continuation of every call awaiting it, in await order; settling a
\* settled promise does nothing.
Settle(s, p, outcome) ==
    IF s.promise[p] # "pending" THEN s
    ELSE LET woken == SelectSeq(s.awaiting, LAMBDA a : a.promise = p)
             ready == [i \in 1..Len(woken) |->
                          [op |-> woken[i].op, outcome |-> outcome]]
         IN  [s EXCEPT !.promise[p] = outcome,
                       !.awaiting = SelectSeq(s.awaiting, LAMBDA a : a.promise # p),
                       !.microtasks = s.microtasks \o ready]

\* await p, by call op: suspend on a pending promise, or queue the
\* continuation at once when p is already settled.
Await(s, op, p) ==
    IF s.promise[p] = "pending"
    THEN [s EXCEPT !.awaiting = Append(s.awaiting, [op |-> op, promise |-> p])]
    ELSE [s EXCEPT !.microtasks =
              Append(s.microtasks, [op |-> op, outcome |-> s.promise[p]])]

\* signal(): store the fill level into the shared cell and notify.
Signal(s) ==
    [s EXCEPT !.readableBuffer = s.fillLevel, !.signalled = TRUE]

\* signalSpace(): wake the first writer in line if its level is reached.
SignalSpace(s0) ==
    LET s == Signal(s0)
    IN  IF s.awaitForFillLevel = <<>> THEN s
        ELSE LET first == Head(s.awaitForFillLevel)
             IN  IF s.fillLevel > first.fillLevel THEN s
                 ELSE Settle([s EXCEPT !.awaitForFillLevel = Tail(s.awaitForFillLevel)],
                             first.promise, "resolved")

\* signalData(): wake the first promise of awaitForData.
SignalData(s0) ==
    LET s == Signal(s0)
    IN  IF s.awaitForData = <<>> THEN s
        ELSE Settle([s EXCEPT !.awaitForData = Tail(s.awaitForData)],
                    Head(s.awaitForData), "resolved")

\* awaitFillLevel(target), awaited by the write call op.
AwaitFillLevel(s, op, target) ==
    Await([s EXCEPT !.promise[op] = "pending",
                    !.awaitForFillLevel =
                        Append(s.awaitForFillLevel, [fillLevel |-> target, promise |-> op])],
          op, op)

\* awaitData(), awaited by the call op.
AwaitData(s, op) ==
    Await([s EXCEPT !.promise[op] = "pending",
                    !.awaitForData = Append(s.awaitForData, op)],
          op, op)

\* Mutant of HasSpace: the size of the chunk is forgotten.
HasSpaceIgnoringChunk(fill, size) == fill <= BufferSize

\* The test of write(): the chunk fits.
HasSpace(fill, size) == fill + size <= BufferSize

\* Math.max(0, BufferSize - chunk.byteLength)
TargetFillLevel(size) == IF BufferSize - size > 0 THEN BufferSize - size ELSE 0

\* this.chunks.push(chunk); this.fillLevel += chunk.byteLength; signalData()
Push(s, w, size) ==
    SignalData([s EXCEPT !.chunks = Append(s.chunks, Slice(w, 0, size)),
                         !.fillLevel = s.fillLevel + size])

\* The test a resumed writer makes before it pushes.
LevelReached(fill, target) == fill <= target

\* The loop of read()'s last branch (lines 109-117), as written: i counts up
\* while the array is shifted; a chunk that does not fit under maxBytes is
\* dropped by the break after it was shifted; result.set throws a RangeError
\* when the chunk does not fit into the result array of resultSize bytes.
RECURSIVE ReadLoop(_, _, _, _, _, _, _)
ReadLoop(i, cs, fill, offset, result, maxBytes, resultSize) ==
    IF ~(i < Len(cs))
    THEN [chunks |-> cs, fillLevel |-> fill, result |-> result, thrown |-> FALSE]
    ELSE LET chunk == Head(cs)
         IN  IF offset + ByteLength(chunk) > maxBytes
             THEN [chunks |-> Tail(cs), fillLevel |-> fill, result |-> result,
                   thrown |-> FALSE]
             ELSE IF offset + ByteLength(chunk) > resultSize
             THEN [chunks |-> Tail(cs), fillLevel |-> fill, result |-> result,
                   thrown |-> TRUE]
             ELSE ReadLoop(i + 1, Tail(cs), fill - ByteLength(chunk),
                           offset + ByteLength(chunk), Append(result, chunk),
                           maxBytes, resultSize)

\* The body of read() once chunks is not empty (lines 76-120):
\* [chunks, fillLevel, result, thrown].
ReadBody(cs, fill, arg) ==
    IF arg = <<>> \/ arg[1] > fill
    THEN \* new Uint8Array(fillLevel), every chunk copied into it: the result
         \* ends in zero bytes when fillLevel is above the bytes buffered
         [chunks |-> <<>>, fillLevel |-> 0,
          result |-> IF fill > TotalLength(cs)
                     THEN Append(cs, Slice(0, 0, fill - TotalLength(cs)))
                     ELSE cs,
          thrown |-> FALSE]
    ELSE LET maxBytes == arg[1]
             chunk == Head(cs)
         IN  IF ByteLength(chunk) > maxBytes
             THEN [chunks |-> <<Slice(chunk.id, chunk.from + maxBytes, chunk.to)>>
                                  \o Tail(cs),
                   fillLevel |-> fill - maxBytes,
                   result |-> <<Slice(chunk.id, chunk.from, chunk.from + maxBytes)>>,
                   thrown |-> FALSE]
             ELSE ReadLoop(0, cs, fill, 0, <<>>, maxBytes, ByteLength(chunk))

PipeInit ==
    /\ chunks = <<>>
    /\ fillLevel = 0
    /\ awaitForFillLevel = <<>>
    /\ awaitForData = <<>>
    /\ readableBuffer = 0
    /\ promise = [p \in Ops |-> "none"]
    /\ awaiting = <<>>
    /\ microtasks = <<>>
    /\ wr = [w \in Writers |-> [pc |-> "idle", size |-> 0, target |-> 0, waited |-> FALSE]]
    /\ rd = [r \in Readers |-> [pc |-> "idle", arg |-> <<>>, result |-> <<>>]]
    /\ wt = [q \in Waiters |-> [pc |-> "idle", result |-> 0]]
    /\ destroyed = FALSE
    /\ atDestroy = {}
    /\ roundTrip = TRUE
    /\ lastOp = [op |-> "none", signalled |-> FALSE, changed |-> FALSE]

\* The calls are made in the order of their numbers.
NextCall(calls, c) ==
    /\ calls[c].pc = "idle"
    /\ \A d \in DOMAIN calls : d < c => calls[d].pc # "idle"

AnyReadCalled == \E r \in Readers : rd[r].pc # "idle"

\* write(chunk), up to its first await (lines 33-45).
Write(w, size) ==
    /\ NextCall(wr, w)
    /\ IF HasSpace(fillLevel, size)
       THEN LET s == Push(Stream, w, size)
            IN  /\ SetStream(s)
                /\ wr' = [wr EXCEPT ![w] = [pc |-> "done", size |-> size,
                                            target |-> 0, waited |-> FALSE]]
                /\ lastOp' = [op |-> "write", signalled |-> s.signalled,
                              changed |-> s.fillLevel # fillLevel]
                /\ roundTrip' = (roundTrip /\ ~AnyReadCalled)
       ELSE /\ SetStream(AwaitFillLevel(Stream, WriteOp(w), TargetFillLevel(size)))
            /\ wr' = [wr EXCEPT ![w] = [pc |-> "awaitSpace", size |-> size,
                                        target |-> TargetFillLevel(size),
                                        waited |-> TRUE]]
            /\ roundTrip' = FALSE
            /\ UNCHANGED lastOp
    /\ UNCHANGED <<rd, wt, destroyed, atDestroy>>

\* The continuation of write() after await this.awaitFillLevel(...)
\* (lines 46-58).
ResumeWrite(w) ==
    /\ microtasks # <<>>
    /\ Head(microtasks).op = WriteOp(w)
    /\ LET s0 == [Stream EXCEPT !.microtasks = Tail(microtasks)]
       IN  IF Head(microtasks).outcome = "rejected"
           THEN \* DestroyError: return
                /\ SetStream(s0)
                /\ wr' = [wr EXCEPT ![w].pc = "released"]
                /\ UNCHANGED lastOp
           ELSE IF ~LevelReached(fillLevel, wr[w].target)
           THEN \* throw new Error('Invalid state: fillLevel should be <= ...')
                /\ SetStream(s0)
                /\ wr' = [wr EXCEPT ![w].pc = "threw"]
                /\ UNCHANGED lastOp
           ELSE LET s == Push(s0, w, wr[w].size)
                IN  /\ SetStream(s)
                    /\ wr' = [wr EXCEPT ![w].pc = "done"]
                    /\ lastOp' = [op |-> "write", signalled |-> s.signalled,
                              changed |-> s.fillLevel # fillLevel]
    /\ UNCHANGED <<rd, wt, destroyed, atDestroy, roundTrip>>

\* read()'s body on a stream s0 whose chunks are not empty (lines 76-120).
DoRead(s0, r, arg) ==
    LET b == ReadBody(s0.chunks, s0.fillLevel, arg)
        s1 == [s0 EXCEPT !.chunks = b.chunks, !.fillLevel = b.fillLevel]
        s == IF b.thrown THEN s1 ELSE SignalSpace(s1)
    IN  /\ SetStream(s)
        /\ rd' = [rd EXCEPT ![r] = [pc |-> IF b.thrown THEN "threw" ELSE "done",
                                    arg |-> arg,
                                    result |-> IF b.thrown THEN <<>> ELSE b.result]]
        /\ lastOp' = [op |-> IF b.thrown THEN "readThrew" ELSE "read",
                      signalled |-> s.signalled,
                      changed |-> s.fillLevel # s0.fillLevel]

\* read(size?), up to its first await (lines 61-72).
Read(r, arg) ==
    /\ NextCall(rd, r)
    /\ IF chunks = <<>>
       THEN /\ SetStream(AwaitData(Stream, ReadOp(r)))
            /\ rd' = [rd EXCEPT ![r] = [pc |-> "awaitData", arg |-> arg,
                                        result |-> <<>>]]
            /\ roundTrip' = FALSE
            /\ UNCHANGED lastOp
       ELSE /\ DoRead(Stream, r, arg)
            /\ UNCHANGED roundTrip
    /\ UNCHANGED <<wr, wt, destroyed, atDestroy>>

\* The continuation of read() after await this.awaitData() (lines 66-120).
ResumeRead(r) ==
    /\ microtasks # <<>>
    /\ Head(microtasks).op = ReadOp(r)
    /\ LET s0 == [Stream EXCEPT !.microtasks = Tail(microtasks)]
       IN  IF Head(microtasks).outcome = "rejected"
           THEN \* DestroyError: return new Uint8Array(0)
                /\ SetStream(s0)
                /\ rd' = [rd EXCEPT ![r].pc = "released"]
                /\ UNCHANGED lastOp
           ELSE IF chunks = <<>>
           THEN \* throw new Error('Invalid state: no bytes available ...')
                /\ SetStream(s0)
                /\ rd' = [rd EXCEPT ![r].pc = "threw"]
                /\ UNCHANGED lastOp
           ELSE DoRead(s0, r, rd[r].arg)
    /\ UNCHANGED <<wr, wt, destroyed, atDestroy, roundTrip>>

\* One turn of waitRead()'s loop (lines 124-142) on stream s0.
WaitLoop(s0, q) ==
    IF s0.chunks # <<>>
    THEN /\ SetStream(s0)
         /\ wt' = [wt EXCEPT ![q] = [pc |-> "done",
                                     result |-> TotalLength(s0.chunks)]]
    ELSE /\ SetStream(IF s0.awaitForData = <<>>
                      THEN AwaitData(s0, WaitOp(q))
                      ELSE Await(s0, WaitOp(q), Head(s0.awaitForData)))
         /\ wt' = [wt EXCEPT ![q] = [pc |-> "awaitData", result |-> 0]]

\* waitRead(), up to its first await.
WaitRead(q) ==
    /\ NextCall(wt, q)
    /\ WaitLoop(Stream, q)
    /\ roundTrip' = FALSE
    /\ UNCHANGED <<wr, rd, destroyed, atDestroy, lastOp>>

\* The continuation of waitRead() after its await.
ResumeWait(q) ==
    /\ microtasks # <<>>
    /\ Head(microtasks).op = WaitOp(q)
    /\ LET s0 == [Stream EXCEPT !.microtasks = Tail(microtasks)]
       IN  IF Head(microtasks).outcome = "rejected"
           THEN \* DestroyError: return 0n
                /\ SetStream(s0)
                /\ wt' = [wt EXCEPT ![q] = [pc |-> "released", result |-> 0]]
           ELSE WaitLoop(s0, q)
    /\ UNCHANGED <<wr, rd, destroyed, atDestroy, roundTrip, lastOp>>

RECURSIVE RejectAll(_, _)
RejectAll(s, ps) ==
    IF ps = <<>> THEN s ELSE RejectAll(Settle(s, Head(ps), "rejected"), Tail(ps))

\* destroy() (lines 145-156): awaitForFillLevel is emptied, awaitForData is
\* not, and signal() is not called.
DestroyStream(s) ==
    LET s1 == [s EXCEPT !.chunks = <<>>, !.fillLevel = 0]
        s2 == RejectAll(s1, [i \in 1..Len(s.awaitForFillLevel) |->
                                 s.awaitForFillLevel[i].promise])
        s3 == [s2 EXCEPT !.awaitForFillLevel = <<>>]
    IN  RejectAll(s3, s.awaitForData)

\* The calls that are suspended: called, and not yet returned or thrown.
Suspended ==
    {WriteOp(w) : w \in {v \in Writers : wr[v].pc = "awaitSpace"}}
        \cup {ReadOp(r) : r \in {v \in Readers : rd[v].pc = "awaitData"}}
        \cup {WaitOp(q) : q \in {v \in Waiters : wt[v].pc = "awaitData"}}

Destroy ==
    /\ ~destroyed
    /\ destroyed' = TRUE
    /\ atDestroy' = Suspended
    /\ LET s == DestroyStream(Stream)
       IN  /\ SetStream(s)
           /\ lastOp' = [op |-> "destroy", signalled |-> s.signalled,
                         changed |-> s.fillLevel # fillLevel]
    /\ roundTrip' = FALSE
    /\ UNCHANGED <<wr, rd, wt>>

\* ------------------------------------------------------------------------
\* Part 2: the cross-thread call transport
\* ------------------------------------------------------------------------
\* The worker (WasiHost, HostConnection) and the service (ServiceConnection,
\* the syscall implementations) run in two threads.  A step of the worker and
\* a step of the service interleave freely; the service itself is one
\* JavaScript thread, so the synchronous end of one handler is not
\* interleaved with another handler.
Calls == 1..MaxCalls

\* The kinds of subscription of poll_oneoff: a clock with timeout zero, a
\* clock with a positive timeout, an fd_read and an fd_write on a descriptor
\* other than stdin, and an event type that is none of the three.
SubKinds == {"clock0", "clock", "fd_read", "fd_write", "unknown"}

RECURSIVE SeqsUpTo(_, _)
SeqsUpTo(S, n) ==
    IF n = 0 THEN {<<>>}
    ELSE LET shorter == SeqsUpTo(S, n - 1)
         IN  shorter \cup {Append(s, x) : s \in shorter, x \in S}

SubscriptionLists == SeqsUpTo(SubKinds, MaxSubs)

\* WASI errnos, by name.  A fresh SharedArrayBuffer is zero-filled, and zero
\* is Errno.success.
Errnos ==
    {"success", "badf", "inval", "nosys", "timedout", "perm", "noent", "notdir", "badmsg"}

\* What the awaited service function does: return an errno, throw a
\* WasiError with an errno, or throw something else.
ServiceOutcomes ==
    {[t |-> "return", errno |-> e] : e \in {"success", "badf"}}
        \cup {[t |-> "WasiError", errno |-> "nosys"], [t |-> "Error", errno |-> "inval"]}

\* What marshalling the arguments does (connection.call up to doCall): it
\* succeeds, throws a WasiError(Errno.inval), or fails with another error.
MarshalOutcomes == {"ok", "WasiError", "Error"}

VARIABLES
    timeout,      \* HostConnection.timeout: <<>> (undefined) or <<ticks>>
    hostPc,       \* where the worker is
    callNo,       \* the number of syscalls the module has made
    elapsed,      \* ticks spent in the current Atomics.wait
    ret,          \* what each syscall returned to the module
    how,          \* how each syscall ended on the worker's side: "failed",
                  \* "local", "fast", "exception", "timedout", "nosys",
                  \* "woken" (slept until the notify), "found" (the cell
                  \* was 1 already when the wait began)
    sync,         \* paramBuffer[lock_index] of each call
    errnoField,   \* paramBuffer[errno_index] of each call
    stores,       \* history: Atomics.store(sync, 0, 1) executed per call
    port,         \* call messages posted and not yet received
    handler,      \* the service's handler of each call message
    svcTail       \* the call whose handler is running its synchronous end

callVars ==
    <<timeout, hostPc, callNo, elapsed, ret, how, sync, errnoField, stores,
      port, handler, svcTail>>


NoHandler ==
    [pc |-> "none", fn |-> "none", subs |-> <<>>, pending |-> 0, events |-> 0,
     result |-> "none", step |-> 1]

CallInit ==
    /\ timeout \in {<<>>, <<WaitTicks>>}
    /\ hostPc = "idle"
    /\ callNo = 0
    /\ elapsed = 0
    /\ ret = [k \in Calls |-> "none"]
    /\ how = [k \in Calls |-> "none"]
    /\ sync = [k \in Calls |-> 0]
    /\ errnoField = [k \in Calls |-> "success"]
    /\ stores = [k \in Calls |-> 0]
    /\ port = <<>>
    /\ handler = [k \in Calls |-> NoHandler]
    /\ svcTail = 0

\* handleError(error, Errno.inval) of WasiHost (lines 1070-1075).
HostHandleError(thrown, def) == IF thrown = "WasiError" THEN "inval" ELSE def

\* The syscall returns e to the module without a message to the service.
ReturnAtOnce(k, e, why) ==
    /\ ret' = [ret EXCEPT ![k] = e]
    /\ how' = [how EXCEPT ![k] = why]
    /\ callNo' = k
    /\ UNCHANGED <<timeout, hostPc, elapsed, sync, errnoField, stores, port,
                   handler, svcTail>>

\* An exception leaves the import function: the module traps.
Escape(k) ==
    /\ ret' = [ret EXCEPT ![k] = "exception"]
    /\ how' = [how EXCEPT ![k] = "exception"]
    /\ callNo' = k
    /\ hostPc' = "trapped"
    /\ UNCHANGED <<timeout, elapsed, sync, errnoField, stores, port, handler,
                   svcTail>>

\* doCall, lines 932-934: Atomics.store(sync, 0, 0); postMessage(...).
PostCall(k, fn, subs) ==
    /\ sync' = [sync EXCEPT ![k] = 0]
    /\ port' = Append(port, k)
    /\ handler' = [handler EXCEPT ![k] = [NoHandler EXCEPT !.fn = fn, !.subs = subs]]
    /\ hostPc' = "posted"
    /\ callNo' = k
    /\ UNCHANGED <<timeout, elapsed, ret, how, errnoField, stores, svcTail>>

\* A wrapper whose whole body is try { return connection.call(...) }
\* catch (error) { return handleError(error, Errno.inval) }: fd_close ...
\* path_unlink_file, proc_exit (lines 1168-1287, 1371-1377).
HostSyscall(marshal) ==
    /\ hostPc = "idle"
    /\ callNo < MaxCalls
    /\ IF marshal = "ok"
       THEN PostCall(callNo + 1, "syscall", <<>>)
       ELSE ReturnAtOnce(callNo + 1, HostHandleError(marshal, "inval"), "failed")

\* clock_time_get (lines 1124-1143): no try; an unknown clock id returns
\* Errno.inval, otherwise the DataView write throws a RangeError when the
\* pointer lies outside the memory.
HostClock(idKnown, ptrOk) ==
    /\ hostPc = "idle"
    /\ callNo < MaxCalls
    /\ IF ~idKnown THEN ReturnAtOnce(callNo + 1, "inval", "local")
       ELSE IF ptrOk THEN ReturnAtOnce(callNo + 1, "success", "local")
       ELSE Escape(callNo + 1)

\* The scan of poll_oneoff (lines 1292-1320): the fast path is taken when
\* every subscription is a clock with timeout zero (or a read of stdin,
\* which this part of the model leaves out).
FastPath(subs) == \A i \in 1..Len(subs) : subs[i] = "clock0"

\* poll_oneoff of WasiHost (lines 1288-1370): the memory is read and written
\* outside any try; only connection.call is inside one.
HostPollOneoff(subs, ptrOk, marshal) ==
    /\ hostPc = "idle"
    /\ callNo < MaxCalls
    /\ IF ~ptrOk THEN Escape(callNo + 1)
       ELSE IF FastPath(subs) THEN ReturnAtOnce(callNo + 1, "success", "fast")
       ELSE IF marshal = "ok" THEN PostCall(callNo + 1, "poll_oneoff", subs)
       ELSE ReturnAtOnce(callNo + 1, HostHandleError(marshal, "inval"), "failed")

\* Mutant of AtomicsWait: the wait expects 1 instead of 0.
AtomicsWaitExpectingOne(value) == IF value # 1 THEN "not-equal" ELSE "sleep"

\* Atomics.wait(sync, 0, 0, timeout) on entry (line 937): it returns
\* 'not-equal' at once when the cell is not 0 and sleeps otherwise.
AtomicsWait(value) == IF value # 0 THEN "not-equal" ELSE "sleep"

\* The switch of doCall (lines 938-951) on the result of the wait, the value
\* loaded from the cell, and the errno field.
DoCallResult(waitResult, value, errno) ==
    IF waitResult = "timed-out" THEN "timedout"
    ELSE IF waitResult = "not-equal" /\ value # 1 THEN "nosys"
    ELSE errno

\* The worker enters Atomics.wait.
HostWait ==
    /\ hostPc = "posted"
    /\ IF AtomicsWait(sync[callNo]) = "sleep"
       THEN /\ hostPc' = "sleeping"
            /\ elapsed' = 0
       ELSE /\ hostPc' = "not-equal"
            /\ UNCHANGED elapsed
    /\ UNCHANGED <<timeout, callNo, ret, how, sync, errnoField, stores, port,
                   handler, svcTail>>

\* Time passes while the worker sleeps with a timeout.
HostTick ==
    /\ hostPc = "sleeping"
    /\ timeout # <<>>
    /\ elapsed < timeout[1]
    /\ elapsed' = elapsed + 1
    /\ UNCHANGED <<timeout, hostPc, callNo, ret, how, sync, errnoField, stores,
                   port, handler, svcTail>>

\* The rest of doCall: the wait has ended with 'timed-out' (the timeout has
\* passed), 'not-equal' or 'ok' (woken by a notify).
HostReturn ==
    /\ \/ hostPc = "sleeping" /\ timeout # <<>> /\ elapsed = timeout[1]
       \/ hostPc \in {"not-equal", "ok"}
    /\ LET waitResult == IF hostPc = "sleeping" THEN "timed-out" ELSE hostPc
           e == DoCallResult(waitResult, sync[callNo], errnoField[callNo])
       IN  /\ ret' = [ret EXCEPT ![callNo] = e]
           /\ how' = [how EXCEPT ![callNo] =
                         IF waitResult = "timed-out" THEN "timedout"
                         ELSE IF e = "nosys" /\ sync[callNo] # 1 THEN "nosys"
                         ELSE IF waitResult = "ok" THEN "woken"
                         ELSE "found"]
    /\ hostPc' = "idle"
    /\ UNCHANGED <<timeout, callNo, elapsed, sync, errnoField, stores, port,
                   handler, svcTail>>

\* What handleSubscriptionsImpl (lines 611-629) does with one subscription:
\* a clock arms a timer, an fd_read starts an asynchronous read of the
\* bytes available, an fd_write finishes at once, and any other event type
\* falls through the switch.
ImmediateKinds == {"fd_write"}
DeferredKinds == {"clock0", "clock", "fd_read"}

\* The number of subscriptions of the list whose kind is one of kinds.
CountOf(subs, kinds) == Cardinality({i \in 1..Len(subs) : subs[i] \in kinds})

\* handleWasiCallMessage's catch (lines 96-102) and the value it writes.
HandlerErrno(outcome) ==
    IF outcome.t = "return" THEN outcome.errno
    ELSE IF outcome.t = "WasiError" THEN outcome.errno
    ELSE "inval"

\* port.onmessage: handleMessage -> handleWasiCallMessage runs up to its
\* await (lines 52-56, 83-94).  A plain syscall awaits one driver operation;
\* poll_oneoff runs handleSubscriptions (lines 597-609), whose promise is
\* resolved by the first event.
Receive ==
    /\ svcTail = 0
    /\ port # <<>>
    /\ LET k == Head(port)
           h == handler[k]
           now == CountOf(h.subs, ImmediateKinds)
           later == CountOf(h.subs, DeferredKinds)
       IN  handler' = [handler EXCEPT ![k] =
               IF h.fn = "syscall"
               THEN [h EXCEPT !.pc = "awaiting", !.pending = 1]
               ELSE [h EXCEPT !.pc = IF now > 0 THEN "ready" ELSE "awaiting",
                              !.pending = later, !.events = now,
                              !.result = IF now > 0 THEN "success" ELSE "none"]]
    /\ port' = Tail(port)
    /\ UNCHANGED <<timeout, hostPc, callNo, elapsed, ret, how, sync, errnoField,
                   stores, svcTail>>

\* The driver operation a plain syscall awaits completes.
DriverDone(k, outcome) ==
    /\ svcTail = 0
    /\ handler[k].fn = "syscall"
    /\ handler[k].pc = "awaiting"
    /\ handler' = [handler EXCEPT ![k] =
           [@ EXCEPT !.pc = "ready", !.pending = 0, !.result = HandlerErrno(outcome)]]
    /\ UNCHANGED <<timeout, hostPc, callNo, elapsed, ret, how, sync, errnoField,
                   stores, port, svcTail>>

\* A timer of a clock subscription fires, or the read of an fd_read
\* subscription completes: finish(event) (lines 601-604).  The first event
\* resolves the promise poll_oneoff awaits (lines 580-590).
SubscriptionDone(k) ==
    /\ svcTail = 0
    /\ handler[k].fn = "poll_oneoff"
    /\ handler[k].pc # "none"
    /\ handler[k].pending > 0
    /\ handler' = [handler EXCEPT ![k] =
           [@ EXCEPT !.pending = @ - 1, !.events = @ + 1,
                     !.pc = IF handler[k].pc = "awaiting" THEN "ready" ELSE @,
                     !.result = IF handler[k].pc = "awaiting" THEN "success" ELSE @]]
    /\ UNCHANGED <<timeout, hostPc, callNo, elapsed, ret, how, sync, errnoField,
                   stores, port, svcTail>>

\* Mutant of ReplyOrder: the cell is set and the caller woken before the
\* errno is written.
ReplyOrderStoreFirst == <<"store", "notify", "errno">>

\* The end of handleWasiCallMessage (lines 95-106): setUint16(errno_index),
\* Atomics.store(sync, 0, 1), Atomics.notify(sync, 0).
ReplyOrder == <<"errno", "store", "notify">>

\* One statement of the end of the handler of call k.  The statements of one
\* handler are not interleaved with another handler, but they are with the
\* worker.
ReplyStep(k) ==
    /\ handler[k].pc \in {"ready", "replying"}
    /\ svcTail \in {0, k}
    /\ LET h == handler[k]
           stmt == ReplyOrder[h.step]
           last == h.step = Len(ReplyOrder)
       IN  /\ handler' = [handler EXCEPT ![k] =
                   [h EXCEPT !.pc = IF last THEN "replied" ELSE "replying",
                             !.step = IF last THEN h.step ELSE h.step + 1]]
           /\ svcTail' = IF last THEN 0 ELSE k
           /\ errnoField' = IF stmt = "errno"
                            THEN [errnoField EXCEPT ![k] = h.result] ELSE errnoField
           /\ sync' = IF stmt = "store" THEN [sync EXCEPT ![k] = 1] ELSE sync
           /\ stores' = IF stmt = "store" THEN [stores EXCEPT ![k] = @ + 1] ELSE stores
           /\ hostPc' = IF stmt = "notify" /\ hostPc = "sleeping" /\ callNo = k
                        THEN "ok" ELSE hostPc
    /\ UNCHANGED <<timeout, callNo, elapsed, ret, how, port>>

\* ------------------------------------------------------------------------
\* Part 3: the descriptor table and the syscall entries of the service
\* ------------------------------------------------------------------------
\* The entries run on the coordinating side.  Calls of one worker reach the
\* service one at a time (no timeout is configured by the process), so each
\* action below is one entry from its call to its reply, the awaited driver
\* operation included; what the driver does is an input of the action.
\* The module's memory is not shared (the process refuses modules that
\* import memory), so the pointers an entry writes through lie in the
\* transfer buffer the host allocated for them.
FdIds == 0..MaxFd

\* The drivers of one process: the pipe device of stdio, two filesystem
\* drivers mounted at /a and /b, and the composing root driver that owns /.
DeviceIds == {"pipe", "A", "B", "root"}

\* preOpenDirectories in insertion order: the mounts, then '/'.
PreOpenDirectories ==
    << [mountPoint |-> "a", driver |-> "A"],
       [mountPoint |-> "b", driver |-> "B"],
       [mountPoint |-> "/", driver |-> "root"] >>

\* needsRootFs: some mount point is not '/'.
NeedsRootFs(mounts) == \E i \in 1..Len(mounts) : mounts[i].mountPoint # "/"

Rights ==
    {"fd_fdstat_set_flags", "fd_filestat_get", "fd_filestat_set_size", "fd_read",
     "fd_readdir", "fd_seek", "fd_tell", "fd_write", "path_create_directory",
     "path_filestat_get", "path_open", "path_readlink", "path_rename_source",
     "path_rename_target", "path_unlink_file"}

ReadOnlyRights ==
    {"fd_filestat_get", "fd_read", "fd_readdir", "fd_seek", "fd_tell",
     "path_filestat_get", "path_open", "path_readlink"}

\* The base rights a descriptor may carry in the model.
RightSets == {Rights, ReadOnlyRights, {}}

NoFd == [fd |-> -1, deviceId |-> "none", rights |-> {}, dir |-> FALSE]

Descriptor(fd, deviceId, rights, dir) ==
    [fd |-> fd, deviceId |-> deviceId, rights |-> rights, dir |-> dir]

\* What a driver operation does: it succeeds, or throws a WasiError, an
\* editor FileSystemError with a code, or something else.
Ok == [t |-> "ok", errno |-> "success", code |-> "none"]

Thrown ==
    { [t |-> "WasiError", errno |-> "noent", code |-> "none"],
      [t |-> "FileSystemError", errno |-> "none", code |-> "FileNotFound"],
      [t |-> "FileSystemError", errno |-> "none", code |-> "NoPermissions"],
      [t |-> "Error", errno |-> "none", code |-> "none"] }

DriverOutcomes == {Ok} \cup Thrown

WasiError(e) == [t |-> "WasiError", errno |-> e, code |-> "none"]

Return(e) == [t |-> "return", errno |-> e, code |-> "none"]

\* code2Wasi.asErrno: the errno of an editor FileSystemError code.
Code2Wasi(code) ==
    IF code = "FileNotFound" THEN "noent"
    ELSE IF code = "NoPermissions" THEN "perm"
    ELSE "badf"

\* Mutant of ServiceHandleError: a WasiError gets the default too.
ServiceHandleErrorDefaultOnly(error, def) ==
    IF error.t = "FileSystemError" THEN Code2Wasi(error.code) ELSE def

\* handleError of the service (lines 273-280, 715-722).
ServiceHandleError(error, def) ==
    IF error.t = "WasiError" THEN error.errno
    ELSE IF error.t = "FileSystemError" THEN Code2Wasi(error.code)
    ELSE def

VARIABLES
    fileDescriptors,   \* the descriptor table: fd -> descriptor or NoFd
    roots,             \* FileDescriptors.setRoot: driver -> its preopened descriptor
    deviceDrivers,     \* the ids the local-over-global registry resolves
    preStats,          \* how many entries of preOpenDirectories fd_prestat_get consumed
    directoryEntries,  \* $directoryEntries: fd -> <<snapshot>> or <<>>
    listing,           \* what the driver's fd_readdir returns for a directory
    last,              \* history: the last call, its reply and its driver call
    client             \* the module's loop that pages through one directory

fsVars ==
    <<fileDescriptors, roots, deviceDrivers, preStats, directoryEntries, listing, last,
      client>>

NoCall == [driver |-> "none", fd |-> -1, path |-> <<>>]

DriverCall(driver, fd, path) == [driver |-> driver, fd |-> fd, path |-> path]

NoOut == [used |-> -1, entries |-> <<>>, fd |-> -1]

NoLast ==
    [entry |-> "none", fd |-> -1, arg |-> <<>>, failure |-> Ok, where |-> "none",
     errno |-> "none", call |-> NoCall, out |-> NoOut]

\* The reply of an entry that ended with result (returned or thrown): the
\* errno handleWasiCallMessage writes (lines 94-102).
Reply(entry, fd, arg, failure, where, result, call, out) ==
    [entry |-> entry, fd |-> fd, arg |-> arg, failure |-> failure,
     where |-> IF failure = Ok THEN "none" ELSE where,
     errno |-> HandlerErrno(result), call |-> call, out |-> out]

\* Mutant of HandlePipes: the pipe device is not added to the registry.
HandlePipesUnregistered(table, registry) ==
    [table |-> [fd \in FdIds |->
                   IF fd \in 0..2 THEN Descriptor(fd, "pipe", {"fd_read", "fd_write"}, FALSE)
                   ELSE table[fd]],
     registry |-> registry]

\* handlePipes (process.ts 270-280): the three stdio descriptors of the pipe
\* device are added to the table and the device to the local registry.
HandlePipes(table, registry) ==
    [table |-> [fd \in FdIds |->
                   IF fd \in 0..2 THEN Descriptor(fd, "pipe", {"fd_read", "fd_write"}, FALSE)
                   ELSE table[fd]],
     registry |-> registry \cup {"pipe"}]

\* The registry after the mounts are mapped (process.ts 106-149): every
\* mounted driver, and the root driver when one is needed.
MountedDrivers(mounts) ==
    {mounts[i].driver : i \in {j \in 1..Len(mounts) : mounts[j].driver # "root"}}
        \cup (IF NeedsRootFs(mounts) THEN {"root"} ELSE {})

\* The directory listings a driver returns in the model: entries with an
\* inode number and the byte length of the name.
Entry(ino, namlen) == [ino |-> ino, namlen |-> namlen]

Listings == { <<>>, <<Entry(1, 2)>>, <<Entry(1, 1), Entry(2, 2)>> }

\* The module's directory loop: not started, in the middle of a listing,
\* done, or ended by an error; the buffer length it uses, the cookie of its
\* next call, the dirents it was given and the calls it made.
ClientIdle ==
    [state |-> "idle", fd |-> -1, buf_len |-> 0, cookie |-> 0, got |-> <<>>, calls |-> 0]

\* The state after WasiProcess.initialize.
FsInit ==
    LET s == HandlePipes([fd \in FdIds |-> NoFd], MountedDrivers(PreOpenDirectories))
    IN  /\ fileDescriptors = s.table
        /\ deviceDrivers = s.registry
        /\ roots = [d \in DeviceIds |-> NoFd]
        /\ preStats = 0
        /\ directoryEntries = [fd \in FdIds |-> <<>>]
        /\ listing \in Listings
        /\ last = NoLast
        /\ client = ClientIdle

\* getFileDescriptor (lines 780-786): is the id live.
Live(fd) == fileDescriptors[fd] # NoFd

\* FileDescriptor.assertBaseRights: does the descriptor hold the right.
HasRight(d, right) == right = "none" \/ right \in d.rights

\* Mutant of Checks: the right is not asserted.
ChecksWithoutRights(fd, right, mustBeDir) ==
    IF ~Live(fd) THEN WasiError("badf")
    ELSE IF mustBeDir /\ ~fileDescriptors[fd].dir THEN WasiError("notdir")
    ELSE Ok

\* The head of an entry: getFileDescriptor, assertBaseRights and, for the
\* entries that need a directory, assertIsDirectory.  Ok, or what is thrown.
Checks(fd, right, mustBeDir) ==
    IF ~Live(fd) THEN WasiError("badf")
    ELSE IF ~HasRight(fileDescriptors[fd], right) THEN WasiError("perm")
    ELSE IF mustBeDir /\ ~fileDescriptors[fd].dir THEN WasiError("notdir")
    ELSE Ok

\* getDeviceDriver (lines 757-759): deviceDrivers.get fails when no driver
\* is registered under the id.
NoSuchDevice == [t |-> "Error", errno |-> "none", code |-> "none"]

Resolve(d) == IF d.deviceId \in deviceDrivers THEN Ok ELSE NoSuchDevice

\* The entries that take a descriptor and make one driver call.
FdEntries ==
    {"fd_fdstat_get", "fd_fdstat_set_flags", "fd_filestat_get",
     "fd_filestat_set_size", "fd_read", "fd_seek", "fd_write"}

\* The right each entry asserts; fd_fdstat_get asserts none.
RequiredRight(entry) == IF entry = "fd_fdstat_get" THEN "none" ELSE entry

\* The default errno of the entry's catch: handleError(error) or, for
\* fd_filestat_get, handleError(error, Errno.perm).
EntryDefault(entry) == IF entry = "fd_filestat_get" THEN "perm" ELSE "badf"

\* fd_seek (lines 425-429): a tell (whence cur, offset 0) on a descriptor
\* with neither fd_seek nor fd_tell throws perm; otherwise fd_seek is
\* asserted.
SeekChecks(fd, tell) ==
    IF ~Live(fd) THEN WasiError("badf")
    ELSE IF tell /\ "fd_seek" \notin fileDescriptors[fd].rights
              /\ "fd_tell" \notin fileDescriptors[fd].rights
    THEN WasiError("perm")
    ELSE Checks(fd, "fd_seek", FALSE)

\* The result of a try block that raised error (Ok: it ran to its end).
Caught(error, def) ==
    IF error = Ok THEN Return("success") ELSE Return(ServiceHandleError(error, def))

\* The first failure of a sequence of steps, Ok when there is none.
RECURSIVE FirstFailure(_)
FirstFailure(steps) ==
    IF steps = <<>> THEN Ok
    ELSE IF Head(steps) # Ok THEN Head(steps)
    ELSE FirstFailure(Tail(steps))

\* fd_fdstat_get ... fd_write except fd_readdir (lines 307-363, 422-452).
FdEntry(entry, fd, tell, outcome) ==
    LET chk == IF entry = "fd_seek" THEN SeekChecks(fd, tell)
               ELSE Checks(fd, RequiredRight(entry), FALSE)
        dev == IF chk = Ok THEN Resolve(fileDescriptors[fd]) ELSE Ok
        called == chk = Ok /\ dev = Ok
        error == FirstFailure(<<chk, dev, outcome>>)
    IN  /\ last' = Reply(entry, fd, <<>>, error, "try",
                         Caught(error, EntryDefault(entry)),
                         IF called THEN DriverCall(fileDescriptors[fd].deviceId, fd, <<>>)
                         ELSE NoCall, NoOut)
        /\ UNCHANGED <<fileDescriptors, roots, deviceDrivers, preStats,
                       directoryEntries, listing>>

\* Mutant of ClosedTable: the descriptor is deleted only when the driver's
\* close succeeded.
ClosedTableOnSuccess(table, fd, error) ==
    IF error = Ok THEN [table EXCEPT ![fd] = NoFd] ELSE table

\* fd_close's finally (line 301): fileDescriptors.delete(fileDescriptor).
ClosedTable(table, fd, error) == [table EXCEPT ![fd] = NoFd]

\* fd_close (lines 292-306): getFileDescriptor is outside the try; the
\* finally deletes the descriptor and awaits its disposer, whose failure
\* replaces the entry's result.  $directoryEntries is not touched.
FdClose(fd, outcome, dispose) ==
    IF ~Live(fd)
    THEN /\ last' = Reply("fd_close", fd, <<>>, WasiError("badf"), "outside",
                          WasiError("badf"), NoCall, NoOut)
         /\ UNCHANGED <<fileDescriptors, roots, deviceDrivers, preStats,
                        directoryEntries, listing>>
    ELSE LET dev == Resolve(fileDescriptors[fd])
             error == FirstFailure(<<dev, outcome>>)
             call == IF dev = Ok THEN DriverCall(fileDescriptors[fd].deviceId, fd, <<>>)
                     ELSE NoCall
         IN  /\ fileDescriptors' = ClosedTable(fileDescriptors, fd, error)
             /\ last' = IF dispose = Ok
                        THEN Reply("fd_close", fd, <<>>, error, "try",
                                   Caught(error, "badf"), call, NoOut)
                        ELSE Reply("fd_close", fd, <<>>, dispose, "outside",
                                   dispose, call, NoOut)
             /\ UNCHANGED <<roots, deviceDrivers, preStats, directoryEntries, listing>>

\* fd_prestat_get (lines 232-252): the next preopened directory gets a
\* descriptor under the number the module names; the iterator has advanced
\* also when the driver failed to create it.
FdPrestatGet(fd, rights, outcome) ==
    IF preStats = Len(PreOpenDirectories)
    THEN /\ last' = Reply("fd_prestat_get", fd, <<>>, Ok, "try", Return("badf"),
                          NoCall, NoOut)
         /\ UNCHANGED <<fileDescriptors, roots, deviceDrivers, preStats,
                        directoryEntries, listing>>
    ELSE LET driver == PreOpenDirectories[preStats + 1].driver
             d == Descriptor(fd, driver, rights, TRUE)
         IN  /\ ~Live(fd)
             /\ fd >= 3
             /\ preStats' = preStats + 1
             /\ fileDescriptors' = IF outcome = Ok THEN [fileDescriptors EXCEPT ![fd] = d]
                                   ELSE fileDescriptors
             /\ roots' = IF outcome = Ok THEN [roots EXCEPT ![driver] = d] ELSE roots
             /\ last' = Reply("fd_prestat_get", fd, <<>>, outcome, "try",
                              Caught(outcome, "badf"), DriverCall(driver, fd, <<>>), NoOut)
             /\ UNCHANGED <<deviceDrivers, directoryEntries, listing>>

\* Dirent.size of the WASI preview-1 ABI: the bytes of a dirent header.
DirentSize == 24

Min(a, b) == IF a < b THEN a ELSE b

\* The loop of fd_readdir (lines 393-410): entry i is packed while a whole
\* header fits; its name is cut to the space that is left.
RECURSIVE ReaddirLoop(_, _, _, _)
ReaddirLoop(entries, i, spaceLeft, out) ==
    IF i < Len(entries) /\ spaceLeft >= DirentSize
    THEN LET e == entries[i + 1]
             spaceForName == Min(spaceLeft - DirentSize, e.namlen)
         IN  ReaddirLoop(entries, i + 1, spaceLeft - DirentSize - spaceForName,
                         Append(out, [d_next |-> i + 1, d_ino |-> e.ino,
                                      d_namlen |-> e.namlen, name |-> spaceForName]))
    ELSE [i |-> i, spaceLeft |-> spaceLeft, out |-> out]

\* Lines 393-416: the entries packed, the used size reported and whether the
\* snapshot is discarded.
Readdir(entries, cookie, buf_len) ==
    LET r == ReaddirLoop(entries, cookie, buf_len, <<>>)
        exhausted == r.i = Len(entries)
    IN  [used |-> IF exhausted THEN buf_len - r.spaceLeft ELSE buf_len,
         entries |-> r.out, exhausted |-> exhausted]

\* Mutant of EndOfList: the shortcut is never taken.
EndOfListNever(cookie, hasSnapshot) == FALSE

\* Line 382: a cookie other than 0 and no snapshot for the descriptor.
EndOfList(cookie, hasSnapshot) == cookie # 0 /\ ~hasSnapshot

\* fd_readdir (lines 364-421).
FdReaddir(fd, cookie, buf_len, outcome) ==
    LET chk == Checks(fd, "fd_readdir", TRUE)
        dev == IF chk = Ok THEN Resolve(fileDescriptors[fd]) ELSE Ok
        pre == FirstFailure(<<chk, dev>>)
        arg == <<cookie, buf_len>>
        call == DriverCall(fileDescriptors[fd].deviceId, fd, <<>>)
    IN  IF pre # Ok
        THEN /\ last' = Reply("fd_readdir", fd, arg, pre, "try", Caught(pre, "badf"),
                              NoCall, NoOut)
             /\ UNCHANGED <<fileDescriptors, roots, deviceDrivers, preStats,
                            directoryEntries, listing>>
        ELSE IF EndOfList(cookie, directoryEntries[fd] # <<>>)
        THEN /\ last' = Reply("fd_readdir", fd, arg, Ok, "try", Return("success"),
                              NoCall, [used |-> 0, entries |-> <<>>, fd |-> -1])
             /\ UNCHANGED <<fileDescriptors, roots, deviceDrivers, preStats,
                            directoryEntries, listing>>
        ELSE IF cookie = 0 /\ outcome # Ok
        THEN /\ last' = Reply("fd_readdir", fd, arg, outcome, "try",
                              Caught(outcome, "badf"), call, NoOut)
             /\ UNCHANGED <<fileDescriptors, roots, deviceDrivers, preStats,
                            directoryEntries, listing>>
        ELSE IF cookie # 0 /\ directoryEntries[fd] = <<>>
        THEN \* entries === undefined: throw new WasiError(Errno.badmsg)
             /\ last' = Reply("fd_readdir", fd, arg, WasiError("badmsg"), "try",
                              Caught(WasiError("badmsg"), "badf"), NoCall, NoOut)
             /\ UNCHANGED <<fileDescriptors, roots, deviceDrivers, preStats,
                            directoryEntries, listing>>
        ELSE LET entries == IF cookie = 0 THEN listing ELSE directoryEntries[fd][1]
                 r == Readdir(entries, cookie, buf_len)
             IN  /\ directoryEntries' =
                        [directoryEntries EXCEPT ![fd] =
                            IF r.exhausted THEN <<>> ELSE <<entries>>]
                 /\ last' = Reply("fd_readdir", fd, arg, Ok, "try", Return("success"),
                                  IF cookie = 0 THEN call ELSE NoCall,
                                  [used |-> r.used, entries |-> r.entries, fd |-> -1])
                 /\ UNCHANGED <<fileDescriptors, roots, deviceDrivers, preStats, listing>>

\* A path: absolute or not, and its components.
Path(abs, parts) == [abs |-> abs, parts |-> parts]

\* The components of the model's paths: the parent directory, a plain name,
\* a name that begins with two dots, and the name of the mount point /b.
Components == {"..", "x", "..x", "b"}

\* The components whose text begins with '..'.
DotDotPrefixed == {"..", "..x"}

\* normalizePath on a relative path: a name followed by '..' cancels; the
\* '..' that lead out of the start directory stay in front.
RECURSIVE Normalize(_, _)
Normalize(done, rest) ==
    IF rest = <<>> THEN done
    ELSE IF Head(rest) = ".." /\ done # <<>> /\ done[Len(done)] # ".."
    THEN Normalize(SubSeq(done, 1, Len(done) - 1), Tail(rest))
    ELSE Normalize(Append(done, Head(rest)), Tail(rest))

\* The same from the root: a '..' at the root stays at the root.
RECURSIVE NormalizeAbsolute(_, _)
NormalizeAbsolute(done, rest) ==
    IF rest = <<>> THEN done
    ELSE IF Head(rest) = ".."
    THEN NormalizeAbsolute(IF done = <<>> THEN <<>> ELSE SubSeq(done, 1, Len(done) - 1),
                           Tail(rest))
    ELSE NormalizeAbsolute(Append(done, Head(rest)), Tail(rest))

\* path.startsWith('..') (line 765).
StartsWithDotDot(parts) == parts # <<>> /\ parts[1] \in DotDotPrefixed

MountPointOf(driver) ==
    (CHOOSE i \in 1..Len(PreOpenDirectories) : PreOpenDirectories[i].driver = driver)

MountPoints ==
    {PreOpenDirectories[i].mountPoint :
        i \in {j \in 1..Len(PreOpenDirectories) : PreOpenDirectories[j].mountPoint # "/"}}

Undefined == [abs |-> FALSE, parts |-> <<"undefined">>]

\* RootFileSystemDeviceDriver.makeVirtualPath: the path seen from the root,
\* or undefined when no mount contains it.
MakeVirtualPath(driver, parts) ==
    LET joined == NormalizeAbsolute(<<>>,
                      <<PreOpenDirectories[MountPointOf(driver)].mountPoint>> \o parts)
    IN  IF joined # <<>> /\ joined[1] \in MountPoints THEN Path(TRUE, joined)
        ELSE Undefined

\* virtualRootFileSystem of the process (process.ts 143-148).
VirtualRoot == IF NeedsRootFs(PreOpenDirectories) THEN "root" ELSE "none"

\* FileSystemDeviceDriver.is
IsFileSystem(driver) == driver \in {"A", "B", "root"}

Route(error, driver, d, path) == [error |-> error, driver |-> driver, d |-> d, path |-> path]

\* getDeviceDriverWithPath (lines 761-778).
GetDeviceDriverWithPath(d, path) ==
    LET result == d.deviceId
    IN  IF Resolve(d) # Ok THEN Route(NoSuchDevice, result, d, path)
        ELSE IF ~path.abs /\ VirtualRoot # "none" /\ VirtualRoot # result
                /\ IsFileSystem(result)
        THEN LET norm == Normalize(<<>>, path.parts)
                 virtualPath == MakeVirtualPath(result, norm)
             IN  IF StartsWithDotDot(norm)
                 THEN IF virtualPath = Undefined
                      THEN Route(WasiError("noent"), result, d, path)
                      ELSE IF roots[VirtualRoot] = NoFd
                      THEN Route(WasiError("noent"), result, d, path)
                      ELSE Route(Ok, VirtualRoot, roots[VirtualRoot], virtualPath)
                 ELSE Route(Ok, result, d, Path(FALSE, norm))
        ELSE Route(Ok, result, d, path)

\* The checks repeated on the descriptor a path call was redirected to
\* (lines 460-463 and alike).
RedirectChecks(parent, d, right, mustBeDir) ==
    IF d = parent THEN Ok
    ELSE IF ~HasRight(d, right) THEN WasiError("perm")
    ELSE IF mustBeDir /\ ~d.dir THEN WasiError("notdir")
    ELSE Ok

\* The path entries that make one driver call and leave the table alone.
PathEntries ==
    {"path_create_directory", "path_filestat_get", "path_readlink", "path_unlink_file"}

\* path_create_directory, path_filestat_get, path_readlink, path_unlink_file
\* (lines 453-486, 509-530, 560-576).  path_readlink returns inval when the
\* link target does not fit the buffer.
PathEntry(entry, fd, path, fits, outcome) ==
    LET chk == Checks(fd, RequiredRight(entry), TRUE)
        route == IF chk = Ok THEN GetDeviceDriverWithPath(fileDescriptors[fd], path)
                 ELSE Route(Ok, "none", NoFd, path)
        redir == IF chk = Ok /\ route.error = Ok
                 THEN RedirectChecks(fileDescriptors[fd], route.d, RequiredRight(entry), TRUE) ELSE Ok
        pre == FirstFailure(<<chk, route.error, redir>>)
        error == FirstFailure(<<pre, outcome>>)
        result == IF error = Ok /\ entry = "path_readlink" /\ ~fits THEN Return("inval")
                  ELSE Caught(error, "badf")
    IN  /\ last' = Reply(entry, fd, path, error, "try", result,
                         IF pre = Ok THEN DriverCall(route.driver, route.d.fd, route.path)
                         ELSE NoCall, NoOut)
        /\ UNCHANGED <<fileDescriptors, roots, deviceDrivers, preStats,
                       directoryEntries, listing>>

\* FileDescriptors.add gives the descriptor a driver created: the ids that
\* are free, and the lowest of them, which the next descriptor gets (an id
\* is used again after its descriptor was closed).
FreeIds == {fd \in FdIds : ~Live(fd)}

NextFd == CHOOSE fd \in FreeIds : \A other \in FreeIds : fd <= other

\* FileDescriptor.assertFdflags and assertOflags: what is thrown when the
\* descriptor does not allow the flags.
FlagChecks(flagsOk) == IF flagsOk THEN Ok ELSE WasiError("perm")

\* Mutant of OpenedTable: the descriptor is added also when the open failed.
OpenedTableAlways(table, error, d) == [table EXCEPT ![d.fd] = d]

\* Line 502: fileDescriptors.add(result), reached when nothing was thrown.
OpenedTable(table, error, d) == IF error = Ok THEN [table EXCEPT ![d.fd] = d] ELSE table

\* path_open (lines 487-508).  The driver creates the descriptor with the
\* rights asked for, narrowed to those of the directory it was opened in.
PathOpen(fd, path, flagsOk, rights, dir, outcome) ==
    LET chk == Checks(fd, "path_open", FALSE)
        flags == FlagChecks(flagsOk)
        route == IF chk = Ok THEN GetDeviceDriverWithPath(fileDescriptors[fd], path)
                 ELSE Route(Ok, "none", NoFd, path)
        redir == IF chk = Ok /\ flags = Ok /\ route.error = Ok
                 THEN RedirectChecks(fileDescriptors[fd], route.d, "path_open", FALSE)
                 ELSE Ok
        pre == FirstFailure(<<chk, flags, route.error, redir>>)
        error == FirstFailure(<<pre, outcome>>)
        d == Descriptor(NextFd, route.driver, rights \cap route.d.rights, dir)
    IN  /\ FreeIds # {}
        /\ fileDescriptors' = OpenedTable(fileDescriptors, error, d)
        /\ last' = Reply("path_open", fd, path, error, "try", Caught(error, "badf"),
                         IF pre = Ok THEN DriverCall(route.driver, route.d.fd, route.path)
                         ELSE NoCall,
                         IF error = Ok THEN [used |-> -1, entries |-> <<>>, fd |-> d.fd]
                         ELSE NoOut)
        /\ UNCHANGED <<roots, deviceDrivers, preStats, directoryEntries, listing>>

\* path_rename (lines 531-559): both parents are checked, both paths routed;
\* two different drivers end the call with nosys before the redirected
\* descriptors are checked.
PathRename(old_fd, old_path, new_fd, new_path, outcome) ==
    LET oldChk == Checks(old_fd, "path_rename_source", TRUE)
        newChk == IF oldChk = Ok THEN Checks(new_fd, "path_rename_target", TRUE) ELSE Ok
        checked == oldChk = Ok /\ newChk = Ok
        old == IF checked THEN GetDeviceDriverWithPath(fileDescriptors[old_fd], old_path)
               ELSE Route(Ok, "none", NoFd, old_path)
        new == IF checked /\ old.error = Ok
               THEN GetDeviceDriverWithPath(fileDescriptors[new_fd], new_path)
               ELSE Route(Ok, "none", NoFd, new_path)
        routed == checked /\ old.error = Ok /\ new.error = Ok
        differ == routed /\ old.driver # new.driver
        oldRedir == IF routed /\ ~differ
                    THEN RedirectChecks(fileDescriptors[old_fd], old.d,
                                        "path_rename_source", TRUE)
                    ELSE Ok
        newRedir == IF routed /\ ~differ /\ oldRedir = Ok
                    THEN RedirectChecks(fileDescriptors[new_fd], new.d,
                                        "path_rename_target", TRUE)
                    ELSE Ok
        pre == FirstFailure(<<oldChk, newChk, old.error, new.error, oldRedir, newRedir>>)
        error == IF differ THEN Ok ELSE FirstFailure(<<pre, outcome>>)
    IN  /\ last' = Reply("path_rename", old_fd, <<old_path, new_fd, new_path>>, error,
                         "try",
                         IF differ THEN Return("nosys") ELSE Caught(error, "badf"),
                         IF pre = Ok /\ ~differ
                         THEN DriverCall(old.driver, old.d.fd, <<old.path, new.d.fd, new.path>>)
                         ELSE NoCall, NoOut)
        /\ UNCHANGED <<fileDescriptors, roots, deviceDrivers, preStats,
                       directoryEntries, listing>>

\* The entries of the environment service that have no try block of their
\* own (lines 169-231): they write the arguments and the environment into the
\* memory they are given, and what a write throws leaves the entry.
EnvEntries == {"args_sizes_get", "args_get", "environ_sizes_get", "environ_get"}

RangeError == [t |-> "Error", errno |-> "none", code |-> "none"]

EnvEntry(entry, outcome) ==
    /\ last' = Reply(entry, -1, <<>>, outcome, "outside",
                     IF outcome = Ok THEN Return("success") ELSE outcome, NoCall, NoOut)
    /\ UNCHANGED <<fileDescriptors, roots, deviceDrivers, preStats, directoryEntries,
                   listing>>

\* $preStatDirnames (line 245): the numbers fd_prestat_get gave a preopened
\* directory; an entry is never removed.
HasPreStatDirname(fd) == \E driver \in DeviceIds : roots[driver].fd = fd

\* fd_prestat_dir_name (lines 253-270): reading .fd of a descriptor that is
\* not in the table throws inside the try.
FdPrestatDirName(fd) ==
    LET error == IF Live(fd) THEN Ok ELSE [t |-> "Error", errno |-> "none", code |-> "none"]
    IN  /\ last' = Reply("fd_prestat_dir_name", fd, <<>>, error, "try",
                         IF error = Ok /\ ~HasPreStatDirname(fd) THEN Return("badf")
                         ELSE Caught(error, "badf"), NoCall, NoOut)
        /\ UNCHANGED <<fileDescriptors, roots, deviceDrivers, preStats,
                       directoryEntries, listing>>

\* handleWasiCallMessage with a method index no function has (lines 88-91).
UnknownMethod ==
    /\ last' = Reply("unknown", -1, <<>>, WasiError("inval"), "outside",
                     WasiError("inval"), NoCall, NoOut)
    /\ UNCHANGED <<fileDescriptors, roots, deviceDrivers, preStats, directoryEntries,
                   listing>>

\* ------------------------------------------------------------------------
\* Part 4: the reverse transfer of HostConnection.call
\* ------------------------------------------------------------------------
\* The module's memory is not shared, so createCallArrays gives the service
\* a second buffer; each pointer parameter gets a place in it, and call
\* copies results from there back into the module's memory.
Addr == 0..(MemSize - 1)

\* What the memory holds before the call, cell by cell (all different), and
\* what the service may write into a cell of the second buffer.
OriginalByte(a) == 10 + a

ServiceBytes == {0, 1}

\* A transfer item of a pointer parameter: data the service only reads
\* ("in"), a result it writes ("out"), or a result in several places, as
\* the buffers of an iovec array ("multi").  parts: where in the module's
\* memory, and how long.
Part(to, size) == [to |-> to, size |-> size]

Item(kind, parts) == [kind |-> kind, parts |-> parts]

Parts == {Part(to, size) : to \in Addr, size \in 1..MaxItemSize} 

FittingParts == {p \in Parts : p.to + p.size <= MemSize}

Items ==
    {Item(kind, <<p>>) : kind \in {"in", "out"}, p \in FittingParts}
        \cup {Item("multi", <<Part(p, 1), Part(q, 1)>>) : p \in Addr, q \in Addr}

\* A parameter of the signature: a number, or a pointer with its item.
Number == Item("number", <<>>)

Params == {Number} \cup Items

ParamLists == UNION {[1..n -> Params] : n \in 0..MaxParams}

IsPtr(param) == param.kind # "number"

RECURSIVE SizeOfParts(_)
SizeOfParts(parts) ==
    IF parts = <<>> THEN 0 ELSE Head(parts).size + SizeOfParts(Tail(parts))

\* transferItem.memorySize
MemorySizeOf(item) == SizeOfParts(item.parts)

\* MemoryTransfer.size: the size of the second buffer.
RECURSIVE TransferSize(_)
TransferSize(params) ==
    IF params = <<>> THEN 0
    ELSE (IF IsPtr(Head(params)) THEN MemorySizeOf(Head(params)) ELSE 0)
             + TransferSize(Tail(params))

Single(from, to, size) == [from |-> from, to |-> to, size |-> size]

\* One element of the reverse transfer: undefined, one range or an array.
NoReverse == [t |-> "undefined", ranges |-> <<>>]

RECURSIVE RangesOf(_, _)
RangesOf(parts, from) ==
    IF parts = <<>> THEN <<>>
    ELSE <<Single(from, Head(parts).to, Head(parts).size)>>
             \o RangesOf(Tail(parts), from + Head(parts).size)

\* transferItem.copy(wasmMemory, from, resultBuffer, to): what it returns
\* for the way back.
ItemReverse(item, result_ptr) ==
    IF item.kind = "in" THEN NoReverse
    ELSE IF item.kind = "out" THEN [t |-> "single", ranges |-> RangesOf(item.parts, result_ptr)]
    ELSE [t |-> "array", ranges |-> RangesOf(item.parts, result_ptr)]

\* The same call: what it puts into the second buffer (the data of an "in"
\* item; zeros elsewhere).
RECURSIVE ItemFill(_, _, _, _)
ItemFill(buffer, memory, parts, at) ==
    IF parts = <<>> THEN buffer
    ELSE ItemFill([b \in DOMAIN buffer |->
                      IF b >= at /\ b < at + Head(parts).size
                      THEN memory[Head(parts).to + (b - at)] ELSE buffer[b]],
                  memory, Tail(parts), at + Head(parts).size)

\* createCallArrays, the branch of a memory that is not shared and a
\* transfer by arguments (lines 977-991): the reverse transfer, the second
\* buffer and whether an item was missing (WasiError inval).
RECURSIVE TransferArguments(_, _, _, _, _, _)
TransferArguments(params, items, transferIndex, result_ptr, reverse, buffer) ==
    IF params = <<>> THEN [threw |-> FALSE, reverse |-> reverse, buffer |-> buffer.b]
    ELSE IF ~IsPtr(Head(params))
    THEN TransferArguments(Tail(params), items, transferIndex, result_ptr, reverse, buffer)
    ELSE IF transferIndex > Len(items)
    THEN [threw |-> TRUE, reverse |-> <<>>, buffer |-> buffer.b]
    ELSE LET transferItem == items[transferIndex]
         IN  TransferArguments(Tail(params), items, transferIndex + 1,
                               result_ptr + MemorySizeOf(transferItem),
                               Append(reverse, ItemReverse(transferItem, result_ptr)),
                               [b |-> IF transferItem.kind = "in"
                                      THEN ItemFill(buffer.b, buffer.m, transferItem.parts,
                                                    result_ptr)
                                      ELSE buffer.b,
                                m |-> buffer.m])

\* The items of a parameter list, one for each pointer.
ItemsOf(params) == SelectSeq(params, IsPtr)

VARIABLES
    wasmMemory,      \* the module's memory, cell by cell
    resultBuffer,    \* the second buffer of the call
    xfer             \* the call: where it is, its parameters, reverse transfer, errno

xferVars == <<wasmMemory, resultBuffer, xfer>>

NoTransfer ==
    [phase |-> "idle", params |-> <<>>, kind |-> "none", reverse |-> <<>>,
     errno |-> "none"]

XferInit ==
    /\ wasmMemory = [a \in Addr |-> OriginalByte(a)]
    /\ resultBuffer = <<>>
    /\ xfer = NoTransfer

\* call up to postMessage (lines 894-899, 954-1003): kind is the transfer
\* the wrapper passes: by arguments, or none; short: the transfer has one
\* item less than the signature has pointers.
Marshal(params, kind, short) ==
    LET all == ItemsOf(params)
        items == IF short /\ all # <<>> THEN SubSeq(all, 1, Len(all) - 1) ELSE all
        size == IF kind = "arguments" THEN TransferSize(items) ELSE 0
        empty == [b \in 0..(size - 1) |-> 0]
        made == TransferArguments(params, items, 1, 0, <<>>,
                                  [b |-> empty, m |-> wasmMemory])
    IN  /\ xfer.phase = "idle"
        /\ IF kind = "arguments" /\ made.threw
           THEN /\ xfer' = [NoTransfer EXCEPT !.phase = "threw", !.params = params,
                                              !.kind = kind]
                /\ resultBuffer' = <<>>
           ELSE /\ xfer' = [phase |-> "called", params |-> params, kind |-> kind,
                            reverse |-> IF kind = "arguments" THEN made.reverse ELSE <<>>,
                            errno |-> "none"]
                /\ resultBuffer' = IF kind = "arguments" THEN made.buffer ELSE empty
        /\ UNCHANGED wasmMemory

\* doCall: the service works on the second buffer and answers, or the wait
\* times out (lines 930-952).
Answer(content, errno) ==
    /\ xfer.phase = "called"
    /\ DOMAIN content = DOMAIN resultBuffer
    /\ resultBuffer' = content
    /\ xfer' = [xfer EXCEPT !.phase = "answered", !.errno = errno]
    /\ UNCHANGED wasmMemory

\* targetMemory.set(new Uint8Array(resultBuffer, from, size), to)
SetBytes(memory, buffer, single) ==
    [a \in DOMAIN memory |->
        IF a >= single.to /\ a < single.to + single.size
        THEN buffer[single.from + (a - single.to)] ELSE memory[a]]

RECURSIVE SetAll(_, _, _)
SetAll(memory, buffer, ranges) ==
    IF ranges = <<>> THEN memory
    ELSE SetAll(SetBytes(memory, buffer, Head(ranges)), buffer, Tail(ranges))

\* The loop of lines 911-926: the pointers of the signature in order, each
\* with the next element of the reverse transfer.
RECURSIVE CopyLoop(_, _, _, _, _)
CopyLoop(memory, buffer, params, reverse, reverseIndex) ==
    IF params = <<>> THEN memory
    ELSE IF ~IsPtr(Head(params))
    THEN CopyLoop(memory, buffer, Tail(params), reverse, reverseIndex)
    ELSE LET r == reverse[reverseIndex]
         IN  CopyLoop(IF r.t = "undefined" THEN memory ELSE SetAll(memory, buffer, r.ranges),
                      buffer, Tail(params), reverse, reverseIndex + 1)

\* Mutant of CopiesBack: the result of the call is not looked at.
CopiesBackAlways(result, kind) == kind = "arguments"

\* Line 900: the results are copied when the call returned success and
\* there is a reverse transfer.
CopiesBack(result, kind) == result = "success" /\ kind = "arguments"

\* call from the return of doCall (lines 899-928).
ReturnFromCall ==
    /\ xfer.phase = "answered"
    /\ wasmMemory' = IF CopiesBack(xfer.errno, xfer.kind)
                     THEN CopyLoop(wasmMemory, resultBuffer, xfer.params, xfer.reverse, 1)
                     ELSE wasmMemory
    /\ xfer' = [xfer EXCEPT !.phase = "returned"]
    /\ UNCHANGED resultBuffer

\* ------------------------------------------------------------------------
\* Part 5: the fast path of WasiHost.poll_oneoff on the stdin pipe
\* ------------------------------------------------------------------------
\* The worker runs poll_oneoff (part_003, lines 1288-1370) in its own thread
\* while the stream of Part 1 runs in the extension's thread.  The two share
\* one 64-bit cell (readableBuffer): the stream stores its fill level there
\* and notifies, the worker waits on it and loads it.  Everything else the
\* fast path touches is the worker's own memory, so the loop is atomic from
\* one access of the cell to the next.
StdinFd == 0
OtherFd == 3

Subscription(type, ns, abstime, fd, userdata) ==
    [type |-> type, timeout |-> ns, abstime |-> abstime, fd |-> fd,
     userdata |-> userdata]

\* Event.write(view, offset, userdata, type, error, nbytes, flags)
EventOf(userdata, type, error, nbytes) ==
    [userdata |-> userdata, type |-> type, error |-> error, nbytes |-> nbytes]

\* Mutant of InstantClock: no clock is instant.
InstantClockNever(sub) == FALSE

\* Line 1302: timeout <= 0n && (flags & subscription_clock_abstime) === 0.
InstantClock(sub) == sub.timeout <= 0 /\ ~sub.abstime

\* The scan of lines 1292-1320: [instant, fastpath].
RECURSIVE Scan(_, _, _, _)
Scan(subs, i, instant, fastpath) ==
    IF i > Len(subs) THEN [instant |-> instant, fastpath |-> fastpath]
    ELSE LET sub == subs[i]
         IN  IF sub.type = "clock"
             THEN IF InstantClock(sub)
                  THEN Scan(subs, i + 1, TRUE, fastpath)
                  ELSE Scan(subs, i + 1, instant, FALSE)
             ELSE IF sub.type = "fd_read"
             THEN Scan(subs, i + 1, instant, fastpath /\ sub.fd = StdinFd)
             ELSE Scan(subs, i + 1, instant, FALSE)

VARIABLES
    poll          \* the worker inside (or between) calls of poll_oneoff

pollVars == <<poll>>

NoPoll ==
    [pc |-> "idle", calls |-> 0, subs |-> <<>>, i |-> 0,
     subscription_offset |-> 0, events |-> <<>>, instant |-> FALSE,
     slept |-> FALSE, atCall |-> 0, woken |-> -1, ret |-> "none",
     how |-> "none"]

PollInit == poll = NoPoll

\* The loop of lines 1335-1366 from iteration p.i on, up to the next access
\* of the shared cell.  The subscription read is the one at
\* subscription_offset, which an iteration left by `continue` (line 1351)
\* does not advance.
RECURSIVE FastLoop(_)
FastLoop(p) ==
    IF p.i > Len(p.subs)
    THEN \* lines 1368-1369
         [p EXCEPT !.pc = "idle", !.ret = "success", !.how = "fast"]
    ELSE LET sub == p.subs[p.subscription_offset]
         IN  IF sub.type = "clock"
             THEN FastLoop([p EXCEPT
                      !.events = Append(p.events,
                                        EventOf(sub.userdata, "clock", "success", 0)),
                      !.i = p.i + 1,
                      !.subscription_offset = p.subscription_offset + 1])
             ELSE IF sub.type = "fd_read"
             THEN [p EXCEPT !.pc = IF p.instant THEN "load" ELSE "wait"]
             ELSE \* throw new Error("Impossible case on the fastpath")
                  [p EXCEPT !.pc = "trapped", !.ret = "exception",
                            !.how = "exception"]

\* No read of the stream is under way: the service reads stdin only for an
\* fd_read of the worker, and the worker is not inside one when it polls.
NoReadUnderWay == \A r \in Readers : rd[r].pc # "awaitData"

\* poll_oneoff(input, output, subscriptions, result_size_ptr), lines
\* 1288-1334: the scan, then the slow path (the call is posted to the
\* service) or the start of the fast loop.
PollOneoff(subs) ==
    /\ poll.pc = "idle"
    /\ poll.calls < MaxPolls
    /\ NoReadUnderWay
    /\ LET scan == Scan(subs, 1, FALSE, TRUE)
           p == [NoPoll EXCEPT !.calls = poll.calls + 1, !.subs = subs,
                               !.instant = scan.instant, !.atCall = fillLevel]
       IN  poll' = IF ~scan.fastpath
                   THEN [p EXCEPT !.pc = "posted", !.how = "slow"]
                   ELSE FastLoop([p EXCEPT !.i = 1, !.subscription_offset = 1])

\* The slow path returns what connection.call returned.
PollSlowReturn(e) ==
    /\ poll.pc = "posted"
    /\ poll' = [poll EXCEPT !.pc = "idle", !.ret = e]

\* Line 1349: Atomics.wait($sharedMemory, 0, 0n) sleeps when the cell holds
\* 0 and returns 'not-equal' at once otherwise.
PollWait ==
    /\ poll.pc = "wait"
    /\ poll' = IF AtomicsWait(readableBuffer) = "sleep"
               THEN [poll EXCEPT !.pc = "sleeping", !.slept = TRUE]
               ELSE [poll EXCEPT !.pc = "load"]

\* Atomics.notify of signal() (streams.ts, line 172) wakes a sleeping
\* worker, whatever the cell holds.
Notified(p, signalled) ==
    IF signalled /\ p.pc = "sleeping"
    THEN [p EXCEPT !.pc = "load", !.woken = fillLevel']
    ELSE p

\* Lines 1350-1359: load the cell; no event when it holds nothing.
PollLoad ==
    /\ poll.pc = "load"
    /\ LET readable == readableBuffer
           sub == poll.subs[poll.subscription_offset]
       IN  poll' = IF readable <= 0
                   THEN FastLoop([poll EXCEPT !.i = poll.i + 1])
                   ELSE FastLoop([poll EXCEPT
                            !.events = Append(poll.events,
                                EventOf(sub.userdata, "fd_read", "success", readable)),
                            !.i = poll.i + 1,
                            !.subscription_offset = poll.subscription_offset + 1])

\* ------------------------------------------------------------------------
\* Part 6: the life cycle of a process
\* ------------------------------------------------------------------------
\* WasiProcess (src/src/web/wasm/process.ts, lines 49-281) and
\* BrowserWasiProcess (src/src/web/wasm/streams.ts, lines 256-322) run in
\* the extension's thread: every async method runs synchronously up to its
\* first await, and each continuation is a later step that other calls may
\* precede.  The worker is a thread of its own.

\* A URI as the sequence of its parts (scheme and authority, then the path
\* segments): a.startsWith(u + "/") holds exactly when a continues u by at
\* least one part.
WsUri == <<"file:", "ws">>
Ws2Uri == <<"file:", "ws2">>
ExtUri == <<"ext:", "data">>
RootUri == <<"wasi-root:">>

\* A mount point as the segments of its path; "/" is the empty sequence.
Segments(mountPoint) ==
    CASE mountPoint = "/" -> <<>>
      [] mountPoint = "/workspace" -> <<"workspace">>
      [] mountPoint = "/workspaces/a" -> <<"workspaces", "a">>
      [] mountPoint = "/workspaces/b" -> <<"workspaces", "b">>
      [] mountPoint = "/ext" -> <<"ext">>

\* MountPointDescriptor values of options.mountPoints.
WorkspaceFolderDescriptor == [kind |-> "workspaceFolder", mountPoint |-> "none"]
ExtensionLocationDescriptor(mountPoint) ==
    [kind |-> "extensionLocation", mountPoint |-> mountPoint]

\* An argument of options.args: a string or a Uri.
StringArg(s) == [kind |-> "string", value |-> <<s>>]
UriArg(u) == [kind |-> "uri", value |-> u]

Mount(mountPoint, driver) == [mountPoint |-> mountPoint, driver |-> driver]

\* Map.prototype.set on a map kept as the sequence of its entries in
\* insertion order: an existing key keeps its place.
MapSet(map, mountPoint, driver) ==
    IF \E i \in 1..Len(map) : map[i].mountPoint = mountPoint
    THEN [i \in 1..Len(map) |->
             IF map[i].mountPoint = mountPoint THEN Mount(mountPoint, driver)
             ELSE map[i]]
    ELSE Append(map, Mount(mountPoint, driver))

\* MapDirDescriptor.getDescriptors (process.ts, lines 23-38) and the order
\* of lines 108-131: the workspace folders, then the extension locations;
\* a vscodeFileSystem descriptor is dropped by getDescriptors.
RECURSIVE Extensions(_)
Extensions(descriptors) ==
    IF descriptors = <<>> THEN <<>>
    ELSE IF Head(descriptors).kind = "extensionLocation"
    THEN <<[mountPoint |-> Head(descriptors).mountPoint, uri |-> ExtUri,
            kind |-> "extensionLocation"]>> \o Extensions(Tail(descriptors))
    ELSE Extensions(Tail(descriptors))

\* mapWorkspaceFolder (lines 260-263) for each folder of the workspace.
FolderLookups(folders) ==
    IF folders = 1
    THEN <<[mountPoint |-> "/workspace", uri |-> WsUri, kind |-> "vscodeFileSystem"]>>
    ELSE IF folders = 2
    THEN <<[mountPoint |-> "/workspaces/a", uri |-> WsUri, kind |-> "vscodeFileSystem"],
           [mountPoint |-> "/workspaces/b", uri |-> Ws2Uri, kind |-> "vscodeFileSystem"]>>
    ELSE <<>>

\* The awaited mount lookups of one initialize(), in order.
Lookups(opt) ==
    IF opt.mountPoints = "undefined" THEN <<>>
    ELSE (IF \E i \in 1..Len(opt.mountPoints) :
                 opt.mountPoints[i].kind = "workspaceFolder"
          THEN FolderLookups(opt.folders) ELSE <<>>)
         \o Extensions(opt.mountPoints)

VARIABLES
    options,                 \* this.options and workspace.workspaceFolders
    state,                   \* this._state
    preOpenDirectories,      \* this.preOpenDirectories, in insertion order
    virtualRootFileSystem,   \* the mount points it was built over, or "undefined"
    localDeviceDrivers,      \* the URIs of the drivers of the local registry
    stdio,                   \* _stdin, _stdout, _stderr: 0 (undefined) or the
                             \* number of the handlePipes() that made them
    pipes,                   \* history: number of handlePipes() executed
    environmentArgs,         \* args handed to EnvironmentWasiService.create
    initialize,              \* the initialize() calls
    mainWorker,              \* "undefined", "created", "idle", "running",
                             \* "done", "terminated"
    runCall,                 \* the run() calls and their promises
    resolveCallback,         \* the run() call whose resolve it is, or 0
    teardown,                \* proc_exit, terminate and the workerDone handler
    exitCode,                \* the code the module passed to proc_exit, or -1
    remaining,               \* descriptors with a disposer left in the table
    log                      \* history: what each of proc_exit, terminate and
                             \* the workerDone handler did, in order

procVars ==
    <<options, state, preOpenDirectories, virtualRootFileSystem,
      localDeviceDrivers, stdio, pipes, environmentArgs, initialize,
      mainWorker, runCall, resolveCallback, teardown, exitCode, remaining, log>>

Initializers == 1..MaxInits
Runners == 1..MaxRuns
Teardowns == {"proc_exit", "terminate", "workerDone"}
StreamNames == <<"stdin", "stdout", "stderr">>

NoTeardown == [pc |-> "idle", at |-> 0, result |-> -1]

\* The state after the constructor (lines 67-83).
Created ==
    /\ state = "created"
    /\ preOpenDirectories = <<>>
    /\ virtualRootFileSystem = "undefined"
    /\ localDeviceDrivers = {}
    /\ stdio = [n \in {"stdin", "stdout", "stderr"} |-> 0]
    /\ pipes = 0
    /\ environmentArgs = "none"
    /\ initialize = [c \in Initializers |-> [pc |-> "idle", at |-> 0, why |-> "none"]]
    /\ mainWorker = "undefined"
    /\ runCall = [r \in Runners |-> [pc |-> "idle", result |-> -1, by |-> "none"]]
    /\ resolveCallback = 0
    /\ teardown = [t \in Teardowns |-> NoTeardown]
    /\ exitCode = -1
    /\ log = [t \in Teardowns |-> <<>>]

\* arg_str.startsWith(uri) where uri ends with "/" (lines 155-158, 168).
UriStartsWith(arg, uri) ==
    Len(arg) > Len(uri) /\ SubSeq(arg, 1, Len(uri)) = uri

\* Mutant of Join: the mount point is left out.
JoinWithoutMountPoint(mountPoint, arg, uri) ==
    NormalizeAbsolute(<<>>, SubSeq(arg, Len(uri) + 1, Len(arg)))

\* path.join(mountPoint, arg_str.substring(uri.length)) (line 169).
Join(mountPoint, arg, uri) ==
    NormalizeAbsolute(<<>>, Segments(mountPoint) \o SubSeq(arg, Len(uri) + 1, Len(arg)))

\* The loop of lines 167-173: the first entry whose URI the argument starts
\* with, or 0.
FirstMatch(arg, map) ==
    IF \E i \in 1..Len(map) : UriStartsWith(arg, map[i].driver)
    THEN CHOOSE i \in 1..Len(map) :
             /\ UriStartsWith(arg, map[i].driver)
             /\ \A j \in 1..(i - 1) : ~UriStartsWith(arg, map[j].driver)
    ELSE 0

\* The argument mapping of lines 151-181: [ok, args].
RECURSIVE MapArgs(_, _, _)
MapArgs(args, map, done) ==
    IF args = <<>> THEN [ok |-> TRUE, args |-> done]
    ELSE LET arg == Head(args)
         IN  IF arg.kind = "string"
             THEN MapArgs(Tail(args), map, Append(done, arg))
             ELSE LET i == FirstMatch(arg.value, map)
                  IN  IF i = 0
                      THEN \* throw new Error(`Could not map argument ...`)
                           [ok |-> FALSE, args |-> done]
                      ELSE MapArgs(Tail(args), map,
                               Append(done,
                                   [kind |-> "path",
                                    value |-> Join(map[i].mountPoint, arg.value,
                                                   map[i].driver)]))

\* Mutant of RootConflict: the root mount is never refused.
RootConflictNever(map) == FALSE

\* Line 135-138: '/' is a key and the map has another key.
RootConflict(map) ==
    /\ \E i \in 1..Len(map) : map[i].mountPoint = "/"
    /\ Len(map) > 1

MountPointsOf(map) == {map[i].mountPoint : i \in 1..Len(map)}

Failed(c, why) ==
    initialize' = [initialize EXCEPT ![c] = [pc |-> "failed", at |-> 0, why |-> why]]

\* initialize() from line 133 (or from line 151 when options.mountPoints is
\* not set) to its end, on the preopen map and the registry at hand.
InitializeTail(c, map, registry) ==
    IF options.mountPoints # "undefined" /\ RootConflict(map)
    THEN /\ Failed(c, "root")
         /\ preOpenDirectories' = map
         /\ localDeviceDrivers' = registry
         /\ UNCHANGED <<state, virtualRootFileSystem, stdio, pipes, environmentArgs>>
    ELSE LET needsRootFs == options.mountPoints # "undefined" /\ NeedsRootFs(map)
             vroot == IF needsRootFs THEN MountPointsOf(map) ELSE virtualRootFileSystem
             map2 == IF needsRootFs THEN MapSet(map, "/", RootUri) ELSE map
             registry2 == IF needsRootFs THEN registry \cup {RootUri} ELSE registry
             mapped == IF options.args = "undefined"
                       THEN [ok |-> TRUE, args |-> "undefined"]
                       ELSE MapArgs(options.args, map2, <<>>)
         IN  /\ preOpenDirectories' = map2
             /\ virtualRootFileSystem' = vroot
             /\ IF ~mapped.ok
                THEN /\ Failed(c, "args")
                     /\ localDeviceDrivers' = registry2
                     /\ UNCHANGED <<state, stdio, pipes, environmentArgs>>
                ELSE /\ pipes' = pipes + 1
                     /\ stdio' = [n \in DOMAIN stdio |-> pipes']
                     /\ localDeviceDrivers' = registry2 \cup {<<"pipe:">>}
                     /\ environmentArgs' = mapped.args
                     /\ state' = "initialized"
                     /\ initialize' = [initialize EXCEPT ![c] =
                                          [pc |-> "done", at |-> 0, why |-> "none"]]

\* The synchronous part of getOrCreateFileSystemByDescriptor
\* (src/src/infoview/index.tsx, lines 706-735): a vscodeFileSystem driver
\* is created and registered before the promise is returned; an extension
\* location is registered once its manifest has been read.
Registered(registry, lookup) ==
    IF lookup.kind = "vscodeFileSystem" THEN registry \cup {lookup.uri} ELSE registry

\* initialize() up to its first await (lines 101-131).
Initialize(c) ==
    /\ NextCall(initialize, c)
    /\ IF state # "created"
       THEN /\ Failed(c, "state")
            /\ UNCHANGED <<state, preOpenDirectories, virtualRootFileSystem,
                           localDeviceDrivers, stdio, pipes, environmentArgs>>
       ELSE IF Lookups(options) = <<>>
       THEN InitializeTail(c, preOpenDirectories, localDeviceDrivers)
       ELSE /\ initialize' = [initialize EXCEPT ![c] =
                                 [pc |-> "await", at |-> 1,
                                  why |-> IF Lookups(options)[1].uri \in localDeviceDrivers
                                          THEN "cached" ELSE "none"]]
            /\ localDeviceDrivers' = Registered(localDeviceDrivers, Lookups(options)[1])
            /\ UNCHANGED <<state, preOpenDirectories, virtualRootFileSystem, stdio,
                           pipes, environmentArgs>>
    /\ UNCHANGED <<options, mainWorker, runCall, resolveCallback, teardown,
                   exitCode, remaining, log>>

\* The continuation of initialize() after an awaited lookup (lines 112-131,
\* 265-268): the lookup produced its driver (ok) or, for an extension
\* location whose manifest could not be read, threw (lines 814-822).
ResumeInitialize(c, ok) ==
    /\ initialize[c].pc = "await"
    /\ LET todo == Lookups(options)
           lookup == todo[initialize[c].at]
           canFail == lookup.kind = "extensionLocation" /\ initialize[c].why # "cached"
       IN  /\ ok \/ canFail
           /\ IF ~ok
              THEN /\ Failed(c, "manifest")
                   /\ UNCHANGED <<state, preOpenDirectories, virtualRootFileSystem,
                                  localDeviceDrivers, stdio, pipes, environmentArgs>>
              ELSE LET map == MapSet(preOpenDirectories, lookup.mountPoint, lookup.uri)
                       registry == localDeviceDrivers \cup {lookup.uri}
                   IN  IF initialize[c].at < Len(todo)
                       THEN LET next == todo[initialize[c].at + 1]
                            IN  /\ initialize' = [initialize EXCEPT ![c] =
                                       [pc |-> "await", at |-> initialize[c].at + 1,
                                        why |-> IF next.uri \in registry
                                                THEN "cached" ELSE "none"]]
                                /\ preOpenDirectories' = map
                                /\ localDeviceDrivers' = Registered(registry, next)
                                /\ UNCHANGED <<state, virtualRootFileSystem, stdio,
                                               pipes, environmentArgs>>
                       ELSE InitializeTail(c, map, registry)
    /\ UNCHANGED <<options, mainWorker, runCall, resolveCallback, teardown,
                   exitCode, remaining, log>>

\* The run() whose promise is pending, or 0.
PendingRun ==
    IF resolveCallback # 0 /\ runCall[resolveCallback].pc = "pending"
    THEN resolveCallback ELSE 0

\* resolveRunPromise(exitCode) (process.ts, lines 252-256), called by t, and
\* the then of run() (lines 218-221): the first resolve settles the promise
\* and the state becomes 'exited'.
ResolveRunPromise(t, code) ==
    IF PendingRun # 0
    THEN /\ runCall' = [runCall EXCEPT ![resolveCallback] =
                           [pc |-> "resolved", result |-> code, by |-> t]]
         /\ state' = "exited"
         /\ log' = [log EXCEPT ![t] = Append(@, <<"resolve", code>>)]
    ELSE UNCHANGED <<runCall, state, log>>

\* Mutant of NotInitialized: run() never refuses.
NotInitializedNever == FALSE

\* The test of run() (line 206).
NotInitialized == state # "initialized"

\* run() (lines 205-222) with the synchronous part of startMain
\* (streams.ts, lines 290-294): the worker is created before run() returns.
Run(r) ==
    /\ NextCall(runCall, r)
    /\ IF NotInitialized
       THEN /\ runCall' = [runCall EXCEPT ![r].pc = "failed"]
            /\ UNCHANGED <<state, mainWorker, resolveCallback>>
       ELSE /\ runCall' = [runCall EXCEPT ![r].pc = "pending"]
            /\ resolveCallback' = r
            /\ mainWorker' = "created"
            /\ state' = "running"
    /\ UNCHANGED <<options, preOpenDirectories, virtualRootFileSystem,
                   localDeviceDrivers, stdio, pipes, environmentArgs, initialize,
                   teardown, exitCode, remaining, log>>

\* The rest of startMain (streams.ts, lines 294-310), once the worker has
\* reported ready: a module that imports memory makes startMain throw, and
\* run() rejects; otherwise the module is started.
StartMain(importsMemory) ==
    /\ mainWorker = "created"
    /\ IF importsMemory
       THEN /\ runCall' = [r \in Runners |->
                              IF runCall[r].pc = "pending"
                              THEN [runCall[r] EXCEPT !.pc = "rejected"]
                              ELSE runCall[r]]
            /\ mainWorker' = "idle"
       ELSE /\ mainWorker' = "running"
            /\ UNCHANGED runCall
    /\ UNCHANGED <<options, state, preOpenDirectories, virtualRootFileSystem,
                   localDeviceDrivers, stdio, pipes, environmentArgs, initialize,
                   resolveCallback, teardown, exitCode, remaining, log>>

\* Mutant of NextStream: no stream is found.
NextStreamNone(streams, from) == 0

\* The first stream from index `from` on that is not undefined, or 0
\* (destroyStreams, process.ts, lines 228-241).
NextStream(streams, from) ==
    IF \E i \in from..3 : streams[StreamNames[i]] # 0
    THEN CHOOSE i \in from..3 :
             /\ streams[StreamNames[i]] # 0
             /\ \A j \in from..(i - 1) : streams[StreamNames[j]] = 0
    ELSE 0

\* destroyStreams() from the test of stream `from` on, up to its next
\* await: the stream found is destroyed, and the call waits.
DestroyStreams(t, streams, from, events) ==
    LET i == NextStream(streams, from)
    IN  /\ stdio' = streams
        /\ IF i = 0
           THEN /\ teardown' = [teardown EXCEPT ![t].pc = "streamsDone", ![t].at = 0]
                /\ log' = [log EXCEPT ![t] = events]
           ELSE /\ teardown' = [teardown EXCEPT ![t].pc = "streams", ![t].at = i]
                /\ log' = [log EXCEPT ![t] =
                               Append(events, <<StreamNames[i], streams[StreamNames[i]]>>)]

\* procExit() up to its first await (streams.ts, lines 271-275); the log
\* notes which run() was pending when it was called.
ProcExit(t) ==
    /\ mainWorker' = IF mainWorker # "undefined" THEN "terminated" ELSE mainWorker
    /\ DestroyStreams(t, stdio, 1,
                      IF mainWorker # "undefined"
                      THEN <<<<"call", PendingRun>>, <<"worker", 0>>>>
                      ELSE <<<<"call", PendingRun>>>>)

\* proc_exit of the process service (process.ts, lines 195-200), called by
\* the module with exitCode, up to its first await.
ProcExitCall(code) ==
    /\ mainWorker = "running"
    /\ teardown["proc_exit"].pc = "idle"
    /\ state' = "exiting"
    /\ exitCode' = code
    /\ ProcExit("proc_exit")
    /\ UNCHANGED <<options, preOpenDirectories, virtualRootFileSystem,
                   localDeviceDrivers, pipes, environmentArgs, initialize,
                   runCall, resolveCallback, remaining>>

\* terminate() (streams.ts, lines 279-281), up to its first await.
Terminate ==
    /\ teardown["terminate"].pc = "idle"
    /\ ProcExit("terminate")
    /\ UNCHANGED <<options, state, preOpenDirectories, virtualRootFileSystem,
                   localDeviceDrivers, pipes, environmentArgs, initialize,
                   runCall, resolveCallback, exitCode, remaining>>

\* The continuation of destroyStreams() after await stream.destroy(): the
\* field is set to undefined and the next stream is tested.
ResumeDestroy(t) ==
    /\ teardown[t].pc = "streams"
    /\ DestroyStreams(t, [stdio EXCEPT ![StreamNames[teardown[t].at]] = 0],
                      teardown[t].at + 1, log[t])
    /\ UNCHANGED <<options, state, preOpenDirectories, virtualRootFileSystem,
                   localDeviceDrivers, pipes, environmentArgs, initialize,
                   mainWorker, runCall, resolveCallback, exitCode, remaining>>

\* cleanupFileDescriptors() (process.ts, lines 243-250) from descriptor
\* `from` of the table on, up to its next await: the disposer is called.
Cleanup(t, from) ==
    IF from > Len(remaining)
    THEN /\ teardown' = [teardown EXCEPT ![t].pc = "cleanupDone", ![t].at = 0]
         /\ UNCHANGED log
    ELSE /\ teardown' = [teardown EXCEPT ![t].pc = "cleanup", ![t].at = from]
         /\ log' = [log EXCEPT ![t] = Append(@, <<"dispose", remaining[from]>>)]

\* The continuation of procExit() after await this.destroyStreams(), and
\* the continuation of cleanupFileDescriptors() after await fd.dispose().
ResumeCleanup(t) ==
    /\ \/ teardown[t].pc = "streamsDone" /\ Cleanup(t, 1)
       \/ teardown[t].pc = "cleanup" /\ Cleanup(t, teardown[t].at + 1)
    /\ UNCHANGED <<options, state, preOpenDirectories, virtualRootFileSystem,
                   localDeviceDrivers, stdio, pipes, environmentArgs, initialize,
                   mainWorker, runCall, resolveCallback, exitCode, remaining>>

\* What each path passes to resolveRunPromise: proc_exit the module's exit
\* code (process.ts, line 198), terminate and workerDone 0 (streams.ts,
\* lines 280-286 and 307).
ResultOf(t) == IF t = "proc_exit" THEN exitCode ELSE 0

\* The end of proc_exit, of terminate() and of the workerDone handler:
\* resolveRunPromise, then the return.
Finish(t) ==
    /\ teardown[t].pc = "cleanupDone"
    /\ ResolveRunPromise(t, ResultOf(t))
    /\ teardown' = [teardown EXCEPT ![t].pc = "done", ![t].result = ResultOf(t)]
    /\ UNCHANGED <<options, preOpenDirectories, virtualRootFileSystem,
                   localDeviceDrivers, stdio, pipes, environmentArgs, initialize,
                   mainWorker, resolveCallback, exitCode, remaining>>

\* The module's _start returns: the worker posts workerDone and closes
\* (process.ts, lines 321-342).
WorkerDone ==
    /\ mainWorker = "running"
    /\ teardown["workerDone"].pc = "idle"
    /\ mainWorker' = "done"
    /\ teardown' = [teardown EXCEPT !["workerDone"].pc = "posted"]
    /\ UNCHANGED <<options, state, preOpenDirectories, virtualRootFileSystem,
                   localDeviceDrivers, stdio, pipes, environmentArgs, initialize,
                   runCall, resolveCallback, exitCode, remaining, log>>

\* The handler of workerDone (streams.ts, lines 305-308), up to its first
\* await.
HandleWorkerDone ==
    /\ teardown["workerDone"].pc = "posted"
    /\ Cleanup("workerDone", 1)
    /\ UNCHANGED <<options, state, preOpenDirectories, virtualRootFileSystem,
                   localDeviceDrivers, stdio, pipes, environmentArgs, initialize,
                   mainWorker, runCall, resolveCallback, exitCode, remaining>>


\* ------------------------------------------------------------------------
\* Part 7: the device registry and the file systems of the kernel
\* ------------------------------------------------------------------------
\* DeviceDriversImpl and LocalDeviceDrivers (src/src/infoview/index.tsx,
\* lines 364-556), FileSystems.getOrCreateFileSystemByDescriptor (706-735)
\* and WasiKernel (826-841).  A JavaScript Map is the sequence of its
\* entries in insertion order.

Driver(id, uri) == [id |-> id, uri |-> uri]

\* undefined, as the result of Map.prototype.get.
NoDriver == Driver(0, "undefined")

MapKeys(map) == {map[i].key : i \in 1..Len(map)}

MapHas(map, key) == key \in MapKeys(map)

MapGet(map, key) ==
    IF MapHas(map, key)
    THEN map[CHOOSE i \in 1..Len(map) : map[i].key = key].value
    ELSE NoDriver

\* Map.prototype.set: an existing key keeps its place.
MapPut(map, key, value) ==
    IF MapHas(map, key)
    THEN [i \in 1..Len(map) |->
             IF map[i].key = key THEN [key |-> key, value |-> value] ELSE map[i]]
    ELSE Append(map, [key |-> key, value |-> value])

MapDelete(map, key) == SelectSeq(map, LAMBDA e : e.key # key)

\* The two maps of a registry (lines 366-372, 442-450).
NewRegistry == [devices |-> <<>>, devicesByUri |-> <<>>]

\* add (lines 374-377 and 452-455): both classes alike.
RegistryAdd(reg, driver) ==
    [devices |-> MapPut(reg.devices, driver.id, driver),
     devicesByUri |-> MapPut(reg.devicesByUri, driver.uri, driver)]

\* The result of a lookup: the driver, or WasiError(Errno.nxio) thrown.
Found(driver) == [error |-> "none", driver |-> driver]
NoSuchDriver == [error |-> "nxio", driver |-> NoDriver]

\* DeviceDriversImpl (lines 379-431).
ImplHas(reg, id) == MapHas(reg.devices, id)

ImplHasByUri(reg, uri) == MapHas(reg.devicesByUri, uri)

ImplGet(reg, id) ==
    IF MapGet(reg.devices, id) = NoDriver THEN NoSuchDriver
    ELSE Found(MapGet(reg.devices, id))

ImplGetByUri(reg, uri) ==
    IF MapGet(reg.devicesByUri, uri) = NoDriver THEN NoSuchDriver
    ELSE Found(MapGet(reg.devicesByUri, uri))

\* The result of a removal: the registry after it, and the error thrown.
Removed(error, reg) == [error |-> error, reg |-> reg]

ImplRemove(reg, id) ==
    LET driver == MapGet(reg.devices, id)
    IN  IF driver = NoDriver THEN Removed("nxio", reg)
        ELSE Removed("none",
                     [devices |-> MapDelete(reg.devices, id),
                      devicesByUri |-> MapDelete(reg.devicesByUri, driver.uri)])

ImplRemoveByUri(reg, uri) ==
    LET driver == MapGet(reg.devicesByUri, uri)
    IN  IF driver = NoDriver THEN Removed("nxio", reg)
        ELSE Removed("none",
                     [devices |-> MapDelete(reg.devices, driver.id),
                      devicesByUri |-> MapDelete(reg.devicesByUri, uri)])

ImplSize(reg) == Len(reg.devices)

ImplEntries(reg) == [i \in 1..Len(reg.devices) |-> reg.devices[i].value]

\* LocalDeviceDrivers over nextDrivers (lines 457-555).
LocalHas(local, next, id) ==
    IF ImplHas(next, id) THEN TRUE ELSE MapHas(local.devices, id)

LocalHasByUri(local, next, uri) ==
    IF ImplHasByUri(next, uri) THEN TRUE ELSE MapHas(local.devicesByUri, uri)

LocalGet(local, next, id) ==
    IF MapGet(local.devices, id) # NoDriver THEN Found(MapGet(local.devices, id))
    ELSE ImplGet(next, id)

LocalGetByUri(local, next, uri) ==
    IF MapGet(local.devicesByUri, uri) # NoDriver
    THEN Found(MapGet(local.devicesByUri, uri))
    ELSE ImplGetByUri(next, uri)

\* The result of a removal through the local registry.
LocalRemoved(error, local, next) == [error |-> error, local |-> local, next |-> next]

LocalRemove(local, next, id) ==
    LET driver == MapGet(local.devices, id)
    IN  IF driver # NoDriver
        THEN LocalRemoved("none",
                          [devices |-> MapDelete(local.devices, id),
                           devicesByUri |-> MapDelete(local.devicesByUri, driver.uri)],
                          next)
        ELSE LocalRemoved(ImplRemove(next, id).error, local, ImplRemove(next, id).reg)

LocalRemoveByUri(local, next, uri) ==
    LET driver == MapGet(local.devicesByUri, uri)
    IN  IF driver # NoDriver
        THEN LocalRemoved("none",
                          [devices |-> MapDelete(local.devices, driver.id),
                           devicesByUri |-> MapDelete(local.devicesByUri, uri)],
                          next)
        ELSE LocalRemoved(ImplRemoveByUri(next, uri).error, local,
                          ImplRemoveByUri(next, uri).reg)

LocalSize(local, next) == Len(local.devices) + ImplSize(next)

\* entries() and values(): the local entries, then those of nextDrivers.
LocalEntries(local, next) == ImplEntries(local) \o ImplEntries(next)

VARIABLES
    kernelDrivers,            \* WasiKernel.deviceDrivers, the global registry
    registries,               \* the LocalDeviceDrivers of each process
    thrown,                  \* the error the last registry call threw, or "none"
    fileSystemDeviceDrivers,  \* FileSystems.fileSystemDeviceDrivers
    deviceCounter,            \* WasiKernel.deviceCounter
    fsCalls,                  \* the getOrCreateFileSystemByDescriptor calls
    createdDrivers            \* history: every driver ever created

regVars == <<kernelDrivers, registries, thrown>>

filesVars == <<fileSystemDeviceDrivers, deviceCounter, fsCalls, createdDrivers>>

Processes == 1..MaxProcesses

GetOrCreateCalls == 1..MaxGetOrCreate

NoFsCall == [pc |-> "idle", process |-> 0, kind |-> "none", uri |-> "none",
             result |-> NoDriver]

\* Nothing registered, nothing cached, no call made.
RegInit ==
    /\ kernelDrivers = NewRegistry
    /\ registries = [p \in Processes |-> NewRegistry]
    /\ thrown = "none"

FilesInit ==
    /\ fileSystemDeviceDrivers = <<>>
    /\ deviceCounter = 1
    /\ fsCalls = [c \in GetOrCreateCalls |-> NoFsCall]
    /\ createdDrivers = {}

\* add on the global registry and on the local registry of process p.
KernelAdd(driver) ==
    /\ kernelDrivers' = RegistryAdd(kernelDrivers, driver)
    /\ thrown' = "none"
    /\ UNCHANGED registries

ProcessAdd(p, driver) ==
    /\ registries' = [registries EXCEPT ![p] = RegistryAdd(@, driver)]
    /\ thrown' = "none"
    /\ UNCHANGED kernelDrivers

\* remove and removeByUri on the global registry.
KernelRemove(id) ==
    /\ kernelDrivers' = ImplRemove(kernelDrivers, id).reg
    /\ thrown' = ImplRemove(kernelDrivers, id).error
    /\ UNCHANGED registries

KernelRemoveByUri(uri) ==
    /\ kernelDrivers' = ImplRemoveByUri(kernelDrivers, uri).reg
    /\ thrown' = ImplRemoveByUri(kernelDrivers, uri).error
    /\ UNCHANGED registries

\* remove and removeByUri on the local registry of process p.
ProcessRemove(p, id) ==
    LET r == LocalRemove(registries[p], kernelDrivers, id)
    IN  /\ registries' = [registries EXCEPT ![p] = r.local]
        /\ kernelDrivers' = r.next
        /\ thrown' = r.error

ProcessRemoveByUri(p, uri) ==
    LET r == LocalRemoveByUri(registries[p], kernelDrivers, uri)
    IN  /\ registries' = [registries EXCEPT ![p] = r.local]
        /\ kernelDrivers' = r.next
        /\ thrown' = r.error

\* The end of getOrCreateFileSystemByDescriptor (lines 726-734) with the
\* driver just created: it is cached (manage is ManageKind.yes by default),
\* added to the caller's registry and returned.
CacheAndAdd(p, driver) ==
    /\ fileSystemDeviceDrivers' = MapPut(fileSystemDeviceDrivers, driver.uri, driver)
    /\ registries' = [registries EXCEPT ![p] = RegistryAdd(@, driver)]
    /\ createdDrivers' = createdDrivers \cup {driver}
    /\ deviceCounter' = deviceCounter + 1

\* getOrCreateFileSystemByDescriptor (lines 706-735) up to its first await,
\* called by process p: a driver the registry knows or the cache holds is
\* returned; a vscodeFileSystem driver is created at once; the manifest of
\* an extension location is awaited.
GetOrCreate(c, p, kind, uri) ==
    /\ NextCall(fsCalls, c)
    /\ IF LocalHasByUri(registries[p], kernelDrivers, uri)
       THEN /\ fsCalls' = [fsCalls EXCEPT ![c] =
                              [pc |-> IF LocalGetByUri(registries[p], kernelDrivers, uri).error
                                         = "none" THEN "done" ELSE "failed",
                               process |-> p, kind |-> kind, uri |-> uri,
                               result |-> LocalGetByUri(registries[p], kernelDrivers,
                                                        uri).driver]]
            /\ UNCHANGED <<fileSystemDeviceDrivers, registries, createdDrivers,
                           deviceCounter>>
       ELSE IF MapGet(fileSystemDeviceDrivers, uri) # NoDriver
       THEN /\ registries' = [registries EXCEPT ![p] =
                                 RegistryAdd(@, MapGet(fileSystemDeviceDrivers, uri))]
            /\ fsCalls' = [fsCalls EXCEPT ![c] =
                              [pc |-> "done", process |-> p, kind |-> kind, uri |-> uri,
                               result |-> MapGet(fileSystemDeviceDrivers, uri)]]
            /\ UNCHANGED <<fileSystemDeviceDrivers, createdDrivers, deviceCounter>>
       ELSE IF kind = "extensionLocation"
       THEN /\ fsCalls' = [fsCalls EXCEPT ![c] =
                              [pc |-> "await", process |-> p, kind |-> kind, uri |-> uri,
                               result |-> NoDriver]]
            /\ UNCHANGED <<fileSystemDeviceDrivers, registries, createdDrivers,
                           deviceCounter>>
       ELSE /\ CacheAndAdd(p, Driver(deviceCounter, uri))
            /\ fsCalls' = [fsCalls EXCEPT ![c] =
                              [pc |-> "done", process |-> p, kind |-> kind, uri |-> uri,
                               result |-> Driver(deviceCounter, uri)]]
    /\ UNCHANGED <<kernelDrivers, thrown>>

\* The continuation after await this.createExtensionLocationFileSystem
\* (lines 716, 807-823): the manifest was read and the driver is created
\* with the next device id, or the read failed and the call rejects.
ResumeGetOrCreate(c, ok) ==
    /\ fsCalls[c].pc = "await"
    /\ IF ok
       THEN /\ CacheAndAdd(fsCalls[c].process, Driver(deviceCounter, fsCalls[c].uri))
            /\ fsCalls' = [fsCalls EXCEPT ![c].pc = "done",
                                          ![c].result = Driver(deviceCounter, fsCalls[c].uri)]
       ELSE /\ fsCalls' = [fsCalls EXCEPT ![c].pc = "failed"]
            /\ UNCHANGED <<fileSystemDeviceDrivers, registries, createdDrivers,
                           deviceCounter>>
    /\ UNCHANGED <<kernelDrivers, thrown>>

\* ------------------------------------------------------------------------
\* Part 8: the request connection of the infoview
\* ------------------------------------------------------------------------
\* MessageConnection (src/src/infoview/index.tsx, lines 27-57, and
\* src/infoview/index.tsx, lines 26-56).  The two copies differ in what the
\* listener does with the entry of a reply: the first deletes it, the
\* second sets it to null.

VARIABLES
    variant,       \* which copy runs: "delete" or "null"
    connPending,   \* this.pending: "undefined", "resolve" or "null" per serial
    connNext,      \* this.next
    serials,       \* history: the serial of each request, in order
    invoked        \* history: the data each serial's continuation was given

connVars == <<variant, connPending, connNext, serials, invoked>>

Serials == 0..MaxRequests

ConnInit ==
    /\ connPending = [s \in Serials |-> "undefined"]
    /\ connNext = 0
    /\ serials = <<>>
    /\ invoked = [s \in Serials |-> <<>>]

\* postRequest (lines 43-56): the promise's executor runs at once.
PostRequest ==
    /\ connNext < MaxRequests
    /\ connPending' = [connPending EXCEPT ![connNext] = "resolve"]
    /\ connNext' = connNext + 1
    /\ serials' = Append(serials, connNext)
    /\ UNCHANGED <<variant, invoked>>

\* Mutant of Truthy: every entry passes.
TruthyAlways(entry) == TRUE

\* this.pending.get(msg.serial) as a condition: a function is truthy,
\* undefined and null are not.
Truthy(entry) == entry = "resolve"

\* The message listener (lines 32-40) on one message.
HandleMessage(kind, serial, data) ==
    /\ IF kind = "RPCReply" /\ Truthy(connPending[serial])
       THEN /\ invoked' = [invoked EXCEPT ![serial] = Append(@, data)]
            /\ connPending' = [connPending EXCEPT ![serial] =
                                  IF variant = "delete" THEN "undefined" ELSE "null"]
       ELSE UNCHANGED <<invoked, connPending>>
    /\ UNCHANGED <<variant, connNext, serials>>

\* The kernel and the connection before anything was done with them.
KernelIdle == RegInit /\ FilesInit /\ ConnInit /\ variant = "delete"

kernelVars == <<regVars, filesVars, connVars>>

\* A process constructed without options and with no descriptor to dispose.
NoOptions == [mountPoints |-> "undefined", folders |-> 0, args |-> "undefined"]

ProcIdle == Created /\ options = NoOptions /\ remaining = <<>>

vars == <<pipeVars, callVars, fsVars, xferVars, pollVars, procVars, kernelVars>>

\* ------------------------------------------------------------------------
\* The specifications
\* ------------------------------------------------------------------------
\* The stream on its own: every method of WritableStream and every resumed
\* continuation; no call is made.
FsIdle == FsInit /\ listing = <<>>

Init == PipeInit /\ CallInit /\ timeout = <<>> /\ FsIdle /\ XferInit /\ PollInit /\ ProcIdle
        /\ KernelIdle

Next ==
    \/ \E w \in Writers, size \in WriteSizes : Write(w, size) /\ UNCHANGED <<callVars, fsVars, xferVars, pollVars, procVars, kernelVars>>
    \/ \E w \in Writers : ResumeWrite(w) /\ UNCHANGED <<callVars, fsVars, xferVars, pollVars, procVars, kernelVars>>
    \/ \E r \in Readers, arg \in ReadArgs : Read(r, arg) /\ UNCHANGED <<callVars, fsVars, xferVars, pollVars, procVars, kernelVars>>
    \/ \E r \in Readers : ResumeRead(r) /\ UNCHANGED <<callVars, fsVars, xferVars, pollVars, procVars, kernelVars>>
    \/ \E q \in Waiters : WaitRead(q) /\ UNCHANGED <<callVars, fsVars, xferVars, pollVars, procVars, kernelVars>>
    \/ \E q \in Waiters : ResumeWait(q) /\ UNCHANGED <<callVars, fsVars, xferVars, pollVars, procVars, kernelVars>>
    \/ Destroy /\ UNCHANGED <<callVars, fsVars, xferVars, pollVars, procVars, kernelVars>>

Spec == Init /\ [][Next]_vars

\* The call transport on its own: the syscalls of the module, the worker's
\* wait and the service's handlers; the stream is left alone.
CallInitial == CallInit /\ PipeInit /\ FsIdle /\ XferInit /\ PollInit /\ ProcIdle
        /\ KernelIdle

CallNext ==
    \/ \E marshal \in MarshalOutcomes : HostSyscall(marshal) /\ UNCHANGED <<pipeVars, fsVars, xferVars, pollVars, procVars, kernelVars>>
    \/ \E idKnown \in BOOLEAN, ptrOk \in BOOLEAN :
           HostClock(idKnown, ptrOk) /\ UNCHANGED <<pipeVars, fsVars, xferVars, pollVars, procVars, kernelVars>>
    \/ \E subs \in SubscriptionLists, ptrOk \in BOOLEAN, marshal \in MarshalOutcomes :
           HostPollOneoff(subs, ptrOk, marshal) /\ UNCHANGED <<pipeVars, fsVars, xferVars, pollVars, procVars, kernelVars>>
    \/ HostWait /\ UNCHANGED <<pipeVars, fsVars, xferVars, pollVars, procVars, kernelVars>>
    \/ HostTick /\ UNCHANGED <<pipeVars, fsVars, xferVars, pollVars, procVars, kernelVars>>
    \/ HostReturn /\ UNCHANGED <<pipeVars, fsVars, xferVars, pollVars, procVars, kernelVars>>
    \/ Receive /\ UNCHANGED <<pipeVars, fsVars, xferVars, pollVars, procVars, kernelVars>>
    \/ \E k \in Calls, outcome \in ServiceOutcomes :
           DriverDone(k, outcome) /\ UNCHANGED <<pipeVars, fsVars, xferVars, pollVars, procVars, kernelVars>>
    \/ \E k \in Calls : SubscriptionDone(k) /\ UNCHANGED <<pipeVars, fsVars, xferVars, pollVars, procVars, kernelVars>>
    \/ \E k \in Calls : ReplyStep(k) /\ UNCHANGED <<pipeVars, fsVars, xferVars, pollVars, procVars, kernelVars>>

CallSpec == CallInitial /\ [][CallNext]_vars

\* The service's message loop runs whatever is runnable: a posted message is
\* received, a driver operation, a timer or a read that is outstanding
\* completes, and a handler that can go on does.  Nothing is assumed of the
\* module, which may stop making calls.
ServiceStep ==
    \/ Receive
    \/ \E k \in Calls, outcome \in ServiceOutcomes : DriverDone(k, outcome)
    \/ \E k \in Calls : SubscriptionDone(k)
    \/ \E k \in Calls : ReplyStep(k)

CallFairSpec == CallSpec /\ WF_vars(ServiceStep /\ UNCHANGED <<pipeVars, fsVars, xferVars, pollVars, procVars, kernelVars>>)

\* The inputs of the entries.
RelativeParts ==
    UNION {[1..n -> Components] : n \in 1..MaxPathLen}

Paths == {Path(FALSE, parts) : parts \in RelativeParts} \cup {Path(TRUE, <<"b">>)}

\* One path inside the directory and one in the sibling mount.
FewPaths == {Path(FALSE, <<"x">>), Path(FALSE, <<"..", "b">>)}

Cookies == 0..MaxCookie

\* Buffer lengths around the size of one and of two dirents.
BufLens == {DirentSize - 1, DirentSize + 1, 2 * DirentSize + 3}

\* The rights the preopened directory of a driver carries in FsSpec.
PreopenRights(driver) == IF driver = "root" THEN ReadOnlyRights ELSE Rights

\* The entry of preOpenDirectories fd_prestat_get hands out next (the last
\* one when all were handed out).
NextPreopen == Min(preStats + 1, Len(PreOpenDirectories))

\* The descriptors path_open created that are still open.
Opened ==
    {fd \in FdIds : /\ Live(fd)
                    /\ fileDescriptors[fd].deviceId # "pipe"
                    /\ roots[fileDescriptors[fd].deviceId] # fileDescriptors[fd]}

\* The number fd_prestat_get gives the preopen of /b in the model.
SiblingFd == 4

\* The worker is blocked in its call until the reply is there, and makes
\* its next call after it took the reply.
Idle == last = NoLast

TakeReply ==
    /\ last # NoLast
    /\ last' = NoLast
    /\ UNCHANGED <<fileDescriptors, roots, deviceDrivers, preStats, directoryEntries,
                   listing>>

\* The descriptor table in motion: preopens, opens, closes and listings,
\* with every kind of driver failure.
FsNext ==
    \/ \E entry \in FdEntries, fd \in FdIds, tell \in BOOLEAN, outcome \in DriverOutcomes :
           /\ Idle
           /\ tell => entry = "fd_seek"
           /\ FdEntry(entry, fd, tell, outcome)
           /\ UNCHANGED <<pipeVars, callVars, client, xferVars, pollVars, procVars, kernelVars>>
    \/ \E fd \in CloseFrom..MaxFd, outcome \in DriverOutcomes,
          dispose \in {Ok, NoSuchDevice} :
           Idle /\ FdClose(fd, outcome, dispose) /\ UNCHANGED <<pipeVars, callVars, client, xferVars, pollVars, procVars, kernelVars>>
    \/ \E outcome \in DriverOutcomes :
           /\ Idle
           /\ FdPrestatGet(Min(3 + preStats, MaxFd),
                           PreopenRights(PreOpenDirectories[NextPreopen].driver),
                           outcome)
           /\ UNCHANGED <<pipeVars, callVars, client, xferVars, pollVars, procVars, kernelVars>>
    \/ \E fd \in FdIds, cookie \in Cookies, buf_len \in BufLens, outcome \in DriverOutcomes :
           /\ Idle
           /\ cookie # 0 => outcome = Ok
           /\ FdReaddir(fd, cookie, buf_len, outcome)
           /\ UNCHANGED <<pipeVars, callVars, client, xferVars, pollVars, procVars, kernelVars>>
    \/ \E entry \in PathEntries, fd \in FdIds, path \in FewPaths, fits \in BOOLEAN,
          outcome \in DriverOutcomes :
           /\ Idle
           /\ ~fits => entry = "path_readlink"
           /\ PathEntry(entry, fd, path, fits, outcome)
           /\ UNCHANGED <<pipeVars, callVars, client, xferVars, pollVars, procVars, kernelVars>>
    \/ \E fd \in FdIds, path \in FewPaths, flagsOk \in BOOLEAN, dir \in BOOLEAN,
          outcome \in DriverOutcomes :
           /\ Idle
           /\ Cardinality(Opened) < MaxOpen
           /\ PathOpen(fd, path, flagsOk, Rights, dir, outcome)
           /\ UNCHANGED <<pipeVars, callVars, client, xferVars, pollVars, procVars, kernelVars>>
    \/ \E old_fd \in FdIds, new_fd \in FdIds, new_path \in FewPaths,
          outcome \in DriverOutcomes :
           /\ Idle
           /\ new_fd \in {old_fd, SiblingFd}
           /\ PathRename(old_fd, Path(FALSE, <<"x">>), new_fd, new_path, outcome)
           /\ UNCHANGED <<pipeVars, callVars, client, xferVars, pollVars, procVars, kernelVars>>
    \/ \E entry \in EnvEntries, outcome \in {Ok, RangeError} :
           Idle /\ EnvEntry(entry, outcome) /\ UNCHANGED <<pipeVars, callVars, client, xferVars, pollVars, procVars, kernelVars>>
    \/ \E fd \in FdIds :
           Idle /\ FdPrestatDirName(fd) /\ UNCHANGED <<pipeVars, callVars, client, xferVars, pollVars, procVars, kernelVars>>
    \/ Idle /\ UnknownMethod /\ UNCHANGED <<pipeVars, callVars, client, xferVars, pollVars, procVars, kernelVars>>
    \/ TakeReply /\ UNCHANGED <<pipeVars, callVars, client, xferVars, pollVars, procVars, kernelVars>>

FsInitial == FsIdle /\ PipeInit /\ CallInit /\ timeout = <<>> /\ XferInit /\ PollInit /\ ProcIdle
        /\ KernelIdle

FsSpec == FsInitial /\ [][FsNext]_vars


\* Path routing on its own: the preopens are handed out, the root's with
\* any of the right sets or not at all, and the path entries are called
\* with every path of the model.
RouteOutcomes == {Ok, WasiError("noent")}

RouteNext ==
    \/ \E rights \in RightSets, outcome \in {Ok, NoSuchDevice} :
           /\ Idle
           /\ PreOpenDirectories[NextPreopen].driver # "root" =>
                  rights = Rights /\ outcome = Ok
           /\ FdPrestatGet(Min(3 + preStats, MaxFd), rights, outcome)
           /\ UNCHANGED <<pipeVars, callVars, client, xferVars, pollVars, procVars, kernelVars>>
    \/ \E entry \in PathEntries, fd \in FdIds, path \in Paths, outcome \in RouteOutcomes :
           /\ Idle
           /\ PathEntry(entry, fd, path, TRUE, outcome)
           /\ UNCHANGED <<pipeVars, callVars, client, xferVars, pollVars, procVars, kernelVars>>
    \/ \E fd \in FdIds, path \in Paths, dir \in BOOLEAN, outcome \in RouteOutcomes :
           /\ Idle
           /\ Cardinality(Opened) < MaxOpen
           /\ PathOpen(fd, path, TRUE, Rights, dir, outcome)
           /\ UNCHANGED <<pipeVars, callVars, client, xferVars, pollVars, procVars, kernelVars>>
    \/ TakeReply /\ UNCHANGED <<pipeVars, callVars, client, xferVars, pollVars, procVars, kernelVars>>

RouteSpec == FsInitial /\ [][RouteNext]_vars

\* The loop of a module that lists a directory: a call with cookie 0, then
\* calls with the d_next of the last dirent it was given, until a call uses
\* less than the whole buffer.
Advance(c, reply) ==
    IF reply.errno # "success" THEN [c EXCEPT !.state = "failed", !.calls = @ + 1]
    ELSE [c EXCEPT !.state = IF reply.out.used < c.buf_len THEN "done" ELSE "listing",
                   !.cookie = IF reply.out.entries = <<>> THEN @
                              ELSE reply.out.entries[Len(reply.out.entries)].d_next,
                   !.got = @ \o reply.out.entries,
                   !.calls = @ + 1]

StartListing(fd, buf_len) ==
    /\ client.state = "idle"
    /\ FdReaddir(fd, 0, buf_len, Ok)
    /\ client' = Advance([ClientIdle EXCEPT !.fd = fd, !.buf_len = buf_len], last')

ContinueListing ==
    /\ client.state = "listing"
    /\ client.calls < MaxListCalls
    /\ FdReaddir(client.fd, client.cookie, client.buf_len, Ok)
    /\ client' = Advance(client, last')

\* One listing from the first call to the last, on any descriptor, for
\* every listing and buffer length of the model.
ListNext ==
    \/ /\ Idle
       /\ FdPrestatGet(Min(3 + preStats, MaxFd),
                       PreopenRights(PreOpenDirectories[NextPreopen].driver), Ok)
       /\ UNCHANGED <<pipeVars, callVars, client, xferVars, pollVars, procVars, kernelVars>>
    \/ \E fd \in FdIds, buf_len \in BufLens :
           Idle /\ StartListing(fd, buf_len) /\ UNCHANGED <<pipeVars, callVars, xferVars, pollVars, procVars, kernelVars>>
    \/ Idle /\ ContinueListing /\ UNCHANGED <<pipeVars, callVars, xferVars, pollVars, procVars, kernelVars>>
    \/ TakeReply /\ UNCHANGED <<pipeVars, callVars, client, xferVars, pollVars, procVars, kernelVars>>

ListInitial == FsInit /\ PipeInit /\ CallInit /\ timeout = <<>> /\ XferInit /\ PollInit /\ ProcIdle
        /\ KernelIdle

ListSpec == ListInitial /\ [][ListNext]_vars

\* Listings, closes and opens: a directory is listed in part, closed, and a
\* descriptor is opened under a number that is free.
ReaddirNext ==
    \/ /\ Idle
       /\ FdPrestatGet(Min(3 + preStats, MaxFd),
                       PreopenRights(PreOpenDirectories[NextPreopen].driver), Ok)
       /\ UNCHANGED <<pipeVars, callVars, client, xferVars, pollVars, procVars, kernelVars>>
    \/ \E fd \in FdIds, cookie \in Cookies, buf_len \in BufLens, outcome \in RouteOutcomes :
           /\ Idle
           /\ cookie # 0 => outcome = Ok
           /\ FdReaddir(fd, cookie, buf_len, outcome)
           /\ UNCHANGED <<pipeVars, callVars, client, xferVars, pollVars, procVars, kernelVars>>
    \/ \E fd \in CloseFrom..MaxFd, outcome \in RouteOutcomes :
           Idle /\ FdClose(fd, outcome, Ok) /\ UNCHANGED <<pipeVars, callVars, client, xferVars, pollVars, procVars, kernelVars>>
    \/ \E fd \in FdIds, dir \in BOOLEAN :
           /\ Idle
           /\ Cardinality(Opened) < MaxOpen
           /\ PathOpen(fd, Path(FALSE, <<"x">>), TRUE, Rights, dir, Ok)
           /\ UNCHANGED <<pipeVars, callVars, client, xferVars, pollVars, procVars, kernelVars>>
    \/ TakeReply /\ UNCHANGED <<pipeVars, callVars, client, xferVars, pollVars, procVars, kernelVars>>

ReaddirSpec == ListInitial /\ [][ReaddirNext]_vars

\* One call of the module through HostConnection.call, with every parameter
\* list of the model, whatever the service wrote and answered.
TransferNext ==
    \/ \E params \in ParamLists, kind \in {"arguments", "none"}, short \in BOOLEAN :
           Marshal(params, kind, short) /\ UNCHANGED <<pipeVars, callVars, fsVars, pollVars, procVars, kernelVars>>
    \/ \E content \in [DOMAIN resultBuffer -> ServiceBytes],
          errno \in {"success", "badf", "timedout"} :
           Answer(content, errno) /\ UNCHANGED <<pipeVars, callVars, fsVars, pollVars, procVars, kernelVars>>
    \/ ReturnFromCall /\ UNCHANGED <<pipeVars, callVars, fsVars, pollVars, procVars, kernelVars>>

TransferInitial == XferInit /\ FsIdle /\ PipeInit /\ CallInit /\ timeout = <<>> /\ PollInit /\ ProcIdle
        /\ KernelIdle

TransferSpec == TransferInitial /\ [][TransferNext]_vars

\* The fast path of poll_oneoff against the stdin stream: the extension
\* writes small chunks (chunks of 0 bytes included) that always fit, the
\* service reads everything buffered for the worker while the worker is
\* outside poll_oneoff, and the worker polls.
PollWriteSizes == {0, 1, 2}

ClockUserdata == 7
ReadUserdata == 8

PollSubscriptions ==
    {Subscription("clock", 0, FALSE, StdinFd, ClockUserdata),
     Subscription("clock", 0, TRUE, StdinFd, ClockUserdata),
     Subscription("clock", 1, FALSE, StdinFd, ClockUserdata),
     Subscription("fd_read", 0, FALSE, StdinFd, ReadUserdata),
     Subscription("fd_read", 0, FALSE, OtherFd, ReadUserdata),
     Subscription("fd_write", 0, FALSE, OtherFd, ReadUserdata)}

PollLists == SeqsUpTo(PollSubscriptions, MaxSubs)

PollNext ==
    \/ \E w \in Writers, size \in PollWriteSizes :
           /\ Write(w, size)
           /\ poll' = Notified(poll, wr'[w].pc = "done")
           /\ UNCHANGED <<callVars, fsVars, xferVars, procVars, kernelVars>>
    \/ \E r \in Readers :
           /\ poll.pc = "idle"
           /\ Read(r, <<>>)
           /\ UNCHANGED <<callVars, fsVars, xferVars, pollVars, procVars, kernelVars>>
    \/ \E r \in Readers :
           ResumeRead(r) /\ UNCHANGED <<callVars, fsVars, xferVars, pollVars, procVars, kernelVars>>
    \/ \E subs \in PollLists :
           PollOneoff(subs) /\ UNCHANGED <<pipeVars, callVars, fsVars, xferVars, procVars, kernelVars>>
    \/ \E e \in {"success", "inval"} :
           PollSlowReturn(e) /\ UNCHANGED <<pipeVars, callVars, fsVars, xferVars, procVars, kernelVars>>
    \/ PollWait /\ UNCHANGED <<pipeVars, callVars, fsVars, xferVars, procVars, kernelVars>>
    \/ PollLoad /\ UNCHANGED <<pipeVars, callVars, fsVars, xferVars, procVars, kernelVars>>

PollInitial ==
    PipeInit /\ CallInit /\ timeout = <<>> /\ FsIdle /\ XferInit /\ PollInit /\ ProcIdle
        /\ KernelIdle

PollSpec == PollInitial /\ [][PollNext]_vars

\* The life cycle of one process: the options it was constructed with, the
\* calls of initialize(), run() and terminate() in any order, and what the
\* worker does.
MountPointChoices ==
    {"undefined",
     <<WorkspaceFolderDescriptor>>,
     <<ExtensionLocationDescriptor("/")>>,
     <<WorkspaceFolderDescriptor, ExtensionLocationDescriptor("/ext")>>,
     <<WorkspaceFolderDescriptor, ExtensionLocationDescriptor("/")>>}

FolderChoices == {0, 1, 2}

ArgChoices ==
    {"undefined",
     <<StringArg("--lsp"), UriArg(WsUri \o <<"src", "a.agda">>)>>,
     <<UriArg(ExtUri \o <<"lib">>), StringArg("-v"), UriArg(Ws2Uri \o <<"a.agda">>)>>,
     <<UriArg(<<"file:", "elsewhere", "a.agda">>)>>}

RemainingChoices == {<<>>, <<3, 4>>}

ExitCodes == {0, 3}

\* The options of the processes whose whole life is followed: none, or one
\* extension location mounted at '/'.
LifeOptions ==
    {NoOptions,
     [mountPoints |-> <<ExtensionLocationDescriptor("/")>>, folders |-> 0,
      args |-> <<StringArg("--lsp")>>]}

ProcInit ==
    /\ Created
    /\ options \in LifeOptions
    /\ remaining \in RemainingChoices

ProcNext ==
    \/ \E c \in Initializers :
           Initialize(c) /\ UNCHANGED <<pipeVars, callVars, fsVars, xferVars, pollVars, kernelVars>>
    \/ \E c \in Initializers, ok \in BOOLEAN :
           ResumeInitialize(c, ok)
               /\ UNCHANGED <<pipeVars, callVars, fsVars, xferVars, pollVars, kernelVars>>
    \/ \E r \in Runners :
           Run(r) /\ UNCHANGED <<pipeVars, callVars, fsVars, xferVars, pollVars, kernelVars>>
    \/ \E importsMemory \in BOOLEAN :
           StartMain(importsMemory)
               /\ UNCHANGED <<pipeVars, callVars, fsVars, xferVars, pollVars, kernelVars>>
    \/ \E code \in ExitCodes :
           ProcExitCall(code) /\ UNCHANGED <<pipeVars, callVars, fsVars, xferVars, pollVars, kernelVars>>
    \/ Terminate /\ UNCHANGED <<pipeVars, callVars, fsVars, xferVars, pollVars, kernelVars>>
    \/ \E t \in Teardowns :
           ResumeDestroy(t) /\ UNCHANGED <<pipeVars, callVars, fsVars, xferVars, pollVars, kernelVars>>
    \/ \E t \in Teardowns :
           ResumeCleanup(t) /\ UNCHANGED <<pipeVars, callVars, fsVars, xferVars, pollVars, kernelVars>>
    \/ \E t \in Teardowns :
           Finish(t) /\ UNCHANGED <<pipeVars, callVars, fsVars, xferVars, pollVars, kernelVars>>
    \/ WorkerDone /\ UNCHANGED <<pipeVars, callVars, fsVars, xferVars, pollVars, kernelVars>>
    \/ HandleWorkerDone /\ UNCHANGED <<pipeVars, callVars, fsVars, xferVars, pollVars, kernelVars>>

ProcInitial ==
    PipeInit /\ CallInit /\ timeout = <<>> /\ FsIdle /\ XferInit /\ PollInit /\ ProcInit
        /\ KernelIdle

ProcSpec == ProcInitial /\ [][ProcNext]_vars

\* initialize() and run() on every choice of options: the calls may overlap,
\* and nothing ends the process.
SetupInit ==
    /\ Created
    /\ options \in [mountPoints : MountPointChoices, folders : FolderChoices,
                    args : ArgChoices]
    /\ remaining = <<>>

SetupNext ==
    \/ \E c \in Initializers :
           Initialize(c) /\ UNCHANGED <<pipeVars, callVars, fsVars, xferVars, pollVars, kernelVars>>
    \/ \E c \in Initializers, ok \in BOOLEAN :
           ResumeInitialize(c, ok)
               /\ UNCHANGED <<pipeVars, callVars, fsVars, xferVars, pollVars, kernelVars>>
    \/ \E r \in Runners :
           Run(r) /\ UNCHANGED <<pipeVars, callVars, fsVars, xferVars, pollVars, kernelVars>>
    \/ \E importsMemory \in BOOLEAN :
           StartMain(importsMemory)
               /\ UNCHANGED <<pipeVars, callVars, fsVars, xferVars, pollVars, kernelVars>>

SetupInitial ==
    PipeInit /\ CallInit /\ timeout = <<>> /\ FsIdle /\ XferInit /\ PollInit /\ SetupInit
        /\ KernelIdle

SetupSpec == SetupInitial /\ [][SetupNext]_vars

\* The registry on its own: drivers are added to and removed from the
\* global registry and the local registry of each process.  Two of the
\* drivers have the same URI, as two drivers created for one location.
RegDrivers == {Driver(1, "A"), Driver(2, "A"), Driver(3, "B")}

RegIds == {1, 2, 3, 4}

RegUris == {"A", "B", "C"}

RegNext ==
    \/ \E d \in RegDrivers :
           KernelAdd(d) /\ UNCHANGED <<pipeVars, callVars, fsVars, xferVars, pollVars,
                                       procVars, filesVars, connVars>>
    \/ \E p \in Processes, d \in RegDrivers :
           ProcessAdd(p, d) /\ UNCHANGED <<pipeVars, callVars, fsVars, xferVars, pollVars,
                                           procVars, filesVars, connVars>>
    \/ \E id \in RegIds :
           KernelRemove(id) /\ UNCHANGED <<pipeVars, callVars, fsVars, xferVars, pollVars,
                                           procVars, filesVars, connVars>>
    \/ \E uri \in RegUris :
           KernelRemoveByUri(uri)
               /\ UNCHANGED <<pipeVars, callVars, fsVars, xferVars, pollVars,
                              procVars, filesVars, connVars>>
    \/ \E p \in Processes, id \in RegIds :
           ProcessRemove(p, id)
               /\ UNCHANGED <<pipeVars, callVars, fsVars, xferVars, pollVars,
                              procVars, filesVars, connVars>>
    \/ \E p \in Processes, uri \in RegUris :
           ProcessRemoveByUri(p, uri)
               /\ UNCHANGED <<pipeVars, callVars, fsVars, xferVars, pollVars,
                              procVars, filesVars, connVars>>

RegInitial ==
    PipeInit /\ CallInit /\ timeout = <<>> /\ FsIdle /\ XferInit /\ PollInit /\ ProcIdle
        /\ KernelIdle

RegSpec == RegInitial /\ [][RegNext]_vars

\* The file systems: processes ask for the driver of a workspace folder and
\* of an extension location, at any time and in any order.
Descriptors ==
    {[kind |-> "vscodeFileSystem", uri |-> "A"],
     [kind |-> "extensionLocation", uri |-> "B"]}

FilesNext ==
    \/ \E c \in GetOrCreateCalls, p \in Processes, d \in Descriptors :
           GetOrCreate(c, p, d.kind, d.uri)
               /\ UNCHANGED <<pipeVars, callVars, fsVars, xferVars, pollVars,
                              procVars, connVars>>
    \/ \E c \in GetOrCreateCalls, ok \in BOOLEAN :
           ResumeGetOrCreate(c, ok)
               /\ UNCHANGED <<pipeVars, callVars, fsVars, xferVars, pollVars,
                              procVars, connVars>>

FilesSpec == RegInitial /\ [][FilesNext]_vars

\* The connection: requests are posted and messages arrive, among them
\* replies to no request and second replies.
MessageKinds == {"RPCReply", "other"}

ReplyData == {1, 2}

ConnNext ==
    \/ PostRequest /\ UNCHANGED <<pipeVars, callVars, fsVars, xferVars, pollVars,
                                  procVars, regVars, filesVars>>
    \/ \E kind \in MessageKinds, serial \in Serials, data \in ReplyData :
           HandleMessage(kind, serial, data)
               /\ UNCHANGED <<pipeVars, callVars, fsVars, xferVars, pollVars,
                              procVars, regVars, filesVars>>

ConnInitial ==
    PipeInit /\ CallInit /\ timeout = <<>> /\ FsIdle /\ XferInit /\ PollInit /\ ProcIdle
        /\ RegInit /\ FilesInit /\ ConnInit /\ variant \in {"delete", "null"}

ConnSpec == ConnInitial /\ [][ConnNext]_vars

\* ------------------------------------------------------------------------
\* Properties of the stream
\* ------------------------------------------------------------------------
CalledWrites == {w \in Writers : wr[w].pc # "idle"}
CalledReads == {r \in Readers : rd[r].pc # "idle"}

\* The chunks of the write calls made so far, in call order.
WrittenChunks ==
    [w \in 1..Cardinality(CalledWrites) |-> Slice(w, 0, wr[w].size)]

\* The results of the read calls made so far, in call order, concatenated.
RECURSIVE ReadResults(_)
ReadResults(n) == IF n = 0 THEN <<>> ELSE ReadResults(n - 1) \o rd[n].result

\* C1: writes whose total size is at most the capacity, followed by reads
\* (with or without a size) until the pipe is empty: no read fails, and the
\* concatenation of the read results is the concatenation of the written
\* chunks.  roundTrip holds exactly while the calls so far are writes that
\* fitted followed by reads of a pipe that was not empty.
C1_RoundTrip ==
    roundTrip =>
        /\ \A r \in Readers : rd[r].pc # "threw"
        /\ chunks = <<>> =>
               Bytes(ReadResults(Cardinality(CalledReads))) = Bytes(WrittenChunks)

\* C2: a write of a chunk no larger than the capacity that had to wait for
\* space is still waiting, or has pushed its chunk, or was released by
\* destroy(): it never ends without its chunk in the pipe (no lost write).
C2_SuspendedWriteIsNotLost ==
    \A w \in Writers :
        (wr[w].waited /\ wr[w].size <= BufferSize) =>
            \/ wr[w].pc \in {"awaitSpace", "done"}
            \/ wr[w].pc = "released" /\ destroyed

\* C3: every write, read and waitRead that was suspended when destroy() ran
\* completes as released (the write without its chunk, the read with an
\* empty array, waitRead with 0): at any later moment it has returned so, or
\* its continuation is ready to run; it is never left waiting and never
\* throws.
Released(op) ==
    \/ op[1] = "write" /\ wr[op[2]].pc = "released"
    \/ op[1] = "read" /\ rd[op[2]].pc = "released" /\ rd[op[2]].result = <<>>
    \/ op[1] = "wait" /\ wt[op[2]].pc = "released" /\ wt[op[2]].result = 0

Ready(op) == \E i \in 1..Len(microtasks) : microtasks[i].op = op

C3_DestroyReleasesSuspended ==
    \A op \in atDestroy : Released(op) \/ Ready(op)

\* C4: a run of read's body on a pipe that holds at least one byte returns
\* a prefix r of the buffered bytes, 1 <= |r| <= size (all of them when no
\* size is given), and leaves exactly the remaining bytes in the pipe.
ReadRan(r) ==
    /\ chunks # <<>>
    /\ rd[r].pc \in {"idle", "awaitData"}
    /\ rd'[r].pc \in {"done", "threw"}

ReadPost(r) ==
    /\ rd'[r].pc = "done"
    /\ Bytes(rd'[r].result \o chunks') = Bytes(chunks)
    /\ TotalLength(rd'[r].result) >= 1
    /\ rd'[r].arg = <<>> => chunks' = <<>>
    /\ rd'[r].arg # <<>> => TotalLength(rd'[r].result) <= rd'[r].arg[1]

C4_ReadReturnsPrefix ==
    [][\A r \in Readers : ReadRan(r) => ReadPost(r)]_pipeVars

C6_CellFollowsFillLevel ==
    lastOp.op \in {"write", "read", "destroy"} =>
        /\ readableBuffer = fillLevel
        /\ lastOp.changed => lastOp.signalled

\* ------------------------------------------------------------------------
\* Properties of the call transport
\* ------------------------------------------------------------------------
\* The service has received call k and has not yet replied to it.
InHandling(k) == handler[k].pc \in {"awaiting", "ready", "replying"}

\* The worker has read the reply of call k.
Replied(k) == how[k] \in {"woken", "found"}

\* The service has started handling call k.
Started(k) == handler[k].pc # "none"

\* C7 (as stated): at most one syscall of the worker is being handled by the
\* service at any time, also when an earlier call timed out on the caller's
\* side while its handler is still suspended.
C7_OneCallInHandling == Cardinality({k \in Calls : InHandling(k)}) <= 1

\* C7 (amended): the service starts handling a later call while an earlier
\* call has not been replied to only if the earlier call ended on the
\* caller's side with a timeout.
C7_OneCallInHandlingUnlessTimedOut ==
    \A k1, k2 \in Calls :
        (k1 < k2 /\ InHandling(k1) /\ Started(k2)) => how[k1] = "timedout"

\* The service handles a later call after it has replied to an earlier one
\* whose caller slept until the reply.
C7_Witness ==
    \E k1, k2 \in Calls :
        /\ k1 < k2
        /\ handler[k1].pc = "replied"
        /\ how[k1] = "woken"
        /\ InHandling(k2)

\* C8: every syscall ends in an errno: timedout when no reply arrived within
\* the timeout, nosys when the cell is neither 0 nor 1, otherwise the errno
\* the service stored; with a timeout the caller does not sleep longer than
\* the timeout; and no wrapper lets an exception escape to the module.
C8_EveryCallEndsInErrno ==
    /\ \A k \in Calls : how[k] # "none" => ret[k] \in Errnos
    /\ \A k \in Calls : how[k] = "timedout" => ret[k] = "timedout"
    /\ \A k \in Calls : how[k] = "nosys" => ret[k] = "nosys" /\ sync[k] \notin {0, 1}
    /\ \A k \in Calls : Replied(k) => sync[k] = 1 /\ ret[k] = errnoField[k]
    /\ (hostPc = "sleeping" /\ timeout # <<>>) => elapsed <= timeout[1]
    /\ hostPc # "trapped"

\* C8 without the wrappers that touch the memory outside a try: what doCall
\* itself returns.
C8_DoCallEndsInErrno ==
    /\ \A k \in Calls : how[k] \notin {"none", "exception"} => ret[k] \in Errnos
    /\ \A k \in Calls : how[k] = "timedout" => ret[k] = "timedout"
    /\ \A k \in Calls : how[k] = "nosys" => ret[k] = "nosys" /\ sync[k] \notin {0, 1}
    /\ \A k \in Calls : Replied(k) => sync[k] = 1 /\ ret[k] = errnoField[k]
    /\ (hostPc = "sleeping" /\ timeout # <<>>) => elapsed <= timeout[1]

\* C9: the service writes the errno before it sets the cell to 1, sets the
\* cell exactly once per call, and a caller that finds the cell at 1 reads
\* the errno the service computed for that call.
C9_ErrnoWrittenBeforeWake ==
    \A k \in Calls :
        /\ stores[k] <= 1
        /\ handler[k].pc = "replied" => stores[k] = 1
        /\ sync[k] = 1 => stores[k] = 1 /\ errnoField[k] = handler[k].result
        /\ Replied(k) => ret[k] = handler[k].result

\* Callers have read an errno other than the zero the buffer starts with,
\* one after sleeping until the notify and one that found the reply already
\* there when it began to wait.
C9_Witness ==
    /\ \E k \in Calls : how[k] = "woken" /\ ret[k] # "success"
    /\ \E k \in Calls : how[k] = "found" /\ ret[k] # "success"

\* C10: every call message the service has received is eventually answered,
\* whatever the subscription list of a poll_oneoff.
C10_EveryCallAnswered == \A k \in Calls : Started(k) ~> (sync[k] = 1)

\* C10, as a state predicate: a handler that is suspended has a driver
\* operation, a timer or a read outstanding whose completion resumes it.
C10_SuspendedHandlerHasWork ==
    \A k \in Calls : handler[k].pc = "awaiting" => handler[k].pending > 0

\* ------------------------------------------------------------------------
\* Properties of the service entries and the descriptor table
\* ------------------------------------------------------------------------
\* The errno an editor FileSystemError code stands for.
MappedErrno(code) ==
    CASE code = "FileNotFound" -> "noent"
      [] code = "NoPermissions" -> "perm"
      [] OTHER -> "badf"

\* C11: whatever is raised while an entry is handled, the reply carries a
\* WASI errno: inside the entry's try a WasiError gives its own errno, an
\* editor FileSystemError its mapped errno and anything else the entry's
\* default (perm for fd_filestat_get, badf for the others); outside the try
\* the connection layer gives the WasiError's errno or inval.
C11_FailuresBecomeErrnos ==
    last.entry # "none" =>
        /\ last.errno \in Errnos
        /\ (last.failure # Ok /\ last.where = "try") =>
               last.errno =
                   CASE last.failure.t = "WasiError" -> last.failure.errno
                     [] last.failure.t = "FileSystemError" -> MappedErrno(last.failure.code)
                     [] OTHER -> IF last.entry = "fd_filestat_get" THEN "perm" ELSE "badf"
        /\ (last.failure # Ok /\ last.where = "outside") =>
               last.errno = IF last.failure.t = "WasiError" THEN last.failure.errno
                            ELSE "inval"

\* A driver's WasiError reached the catch of fd_filestat_get and the reply
\* carries its errno, not the entry's default.
C11_Witness ==
    /\ last.entry = "fd_filestat_get"
    /\ last.call # NoCall
    /\ last.failure = WasiError("noent")
    /\ last.errno = "noent"

\* The entries that name a descriptor the call works on.
NamingEntries ==
    FdEntries \cup PathEntries
        \cup {"fd_close", "fd_readdir", "fd_prestat_dir_name", "path_open", "path_rename"}

C14_PathOpenAddsOneOrNone ==
    [][ (last' # NoLast /\ last'.entry = "path_open") =>
            /\ last'.errno = "success" <=> last'.failure = Ok
            /\ last'.errno = "success" =>
                   /\ last'.out.fd \in FdIds
                   /\ fileDescriptors[last'.out.fd] = NoFd
                   /\ fileDescriptors'[last'.out.fd] # NoFd
                   /\ fileDescriptors'[last'.out.fd].fd = last'.out.fd
                   /\ \A fd \in FdIds \ {last'.out.fd} :
                          fileDescriptors'[fd] = fileDescriptors[fd]
            /\ last'.errno # "success" =>
                   /\ fileDescriptors' = fileDescriptors
                   /\ last'.out = NoOut
      ]_vars

\* A path_open through the preopened directory of /a that the driver
\* answered: the new descriptor is in the table under the reported id.
C14_Witness ==
    /\ last.entry = "path_open"
    /\ last.errno = "success"
    /\ last.call.driver = "A"
    /\ Live(last.out.fd)
    /\ last.out.fd # last.fd

RightEntries ==
    {"fd_fdstat_set_flags", "fd_filestat_get", "fd_filestat_set_size", "fd_read",
     "fd_readdir", "fd_seek", "fd_write", "path_create_directory", "path_filestat_get",
     "path_open", "path_readlink", "path_rename", "path_unlink_file"}

ClaimedRight(entry) == IF entry = "path_rename" THEN "path_rename_source" ELSE entry

TableUnchanged ==
    UNCHANGED <<fileDescriptors, roots, deviceDrivers, preStats, directoryEntries, listing>>

\* C17: an entry that requires a right calls the driver only when the
\* descriptor it is called on holds the right; when the descriptor lacks it
\* the reply is perm, no driver is called and nothing changes.  A call that
\* was redirected (the driver called is not the descriptor's own) reaches
\* the driver only when the root's preopened descriptor holds the right too.  The target directory of path_rename is held to
\* path_rename_target in the same way; it is looked at after the source
\* directory passed its checks.
C17_RightsGuardTheDriver ==
    [][ ( /\ last' # NoLast
          /\ last'.entry \in RightEntries
          /\ fileDescriptors[last'.fd] # NoFd ) =>
            LET d == fileDescriptors[last'.fd]
                r == ClaimedRight(last'.entry)
            IN  /\ last'.call # NoCall => r \in d.rights
                /\ r \notin d.rights =>
                       /\ last'.errno = "perm"
                       /\ last'.call = NoCall
                       /\ TableUnchanged
                /\ (last'.call # NoCall /\ last'.call.driver # d.deviceId) =>
                       /\ last'.call.fd = roots[last'.call.driver].fd
                       /\ r \in roots[last'.call.driver].rights
                /\ last'.entry = "path_rename" =>
                       LET n == fileDescriptors[last'.arg[2]]
                           t == "path_rename_target"
                       IN  /\ last'.call # NoCall =>
                                  /\ n # NoFd
                                  /\ t \in n.rights
                                  /\ last'.call.driver # n.deviceId =>
                                         /\ last'.call.path[2] = roots[last'.call.driver].fd
                                         /\ t \in roots[last'.call.driver].rights
                           /\ (n # NoFd /\ t \notin n.rights) =>
                                  /\ last'.call = NoCall
                                  /\ TableUnchanged
                                  /\ (r \in d.rights /\ d.dir) => last'.errno = "perm"
      ]_vars

\* path_create_directory on the preopened directory of /a, which holds the
\* right, with a path into the sibling mount: the call is redirected to the
\* root descriptor, which lacks the right, and is refused.
C17_Witness ==
    /\ last.entry = "path_create_directory"
    /\ roots["A"] # NoFd
    /\ last.fd = roots["A"].fd
    /\ Live(last.fd)
    /\ "path_create_directory" \in fileDescriptors[last.fd].rights
    /\ last.arg = Path(FALSE, <<"..", "b">>)
    /\ roots["root"] # NoFd
    /\ "path_create_directory" \notin roots["root"].rights
    /\ last.errno = "perm"
    /\ last.call = NoCall

\* Where a relative path leads from the root of a mount: it stays inside
\* when, with every name/.. pair cancelled, it does not begin with the
\* parent directory; otherwise its target is the path from the root.
StaysInside(parts) ==
    LET norm == Normalize(<<>>, parts) IN norm = <<>> \/ norm[1] # ".."

TargetOf(driver, parts) ==
    NormalizeAbsolute(<<>>, <<PreOpenDirectories[MountPointOf(driver)].mountPoint>> \o parts)

InSomeMount(target) == target # <<>> /\ target[1] \in MountPoints

RoutedEntries == PathEntries \cup {"path_open"}

\* What C15 asks of one step.
RoutingHolds ==
        ( /\ last' # NoLast
          /\ last'.entry \in RoutedEntries
          /\ fileDescriptors[last'.fd] # NoFd
          /\ fileDescriptors[last'.fd].deviceId \in {"A", "B"}
          /\ roots[fileDescriptors[last'.fd].deviceId] = fileDescriptors[last'.fd]
          /\ last'.entry \in fileDescriptors[last'.fd].rights
          /\ ~last'.arg.abs ) =>
            LET d == fileDescriptors[last'.fd]
                parts == last'.arg.parts
                target == TargetOf(d.deviceId, parts)
            IN  IF StaysInside(parts)
                THEN /\ last'.call.driver = d.deviceId
                     /\ last'.call.fd = d.fd
                     /\ ~last'.call.path.abs
                     /\ last'.call.path.parts = Normalize(<<>>, parts)
                ELSE IF InSomeMount(target) /\ roots["root"] # NoFd
                THEN last'.call # NoCall =>
                         /\ last'.call.driver = "root"
                         /\ last'.call.fd = roots["root"].fd
                         /\ last'.call.path = Path(TRUE, target)
                ELSE /\ last'.errno = "noent"
                     /\ last'.call = NoCall

\* C15: a path entry called with a relative path on the preopened directory
\* of a non-root filesystem driver, the descriptor passing its own checks:
\* a path that stays inside the subtree reaches that driver with the same
\* descriptor; a path that leaves it for a target some mount contains
\* reaches, if any driver, the root driver with the root's preopened
\* descriptor and the target as path; a path that leaves it for a target no
\* mount contains, or with no preopened root, is answered noent without a
\* driver call.
C15_PathRouting == [][RoutingHolds]_vars

\* The same for the paths none of whose names begins with two dots.
C15_PathRoutingOfPlainNames ==
    [][ ( /\ last' # NoLast
          /\ last'.entry \in RoutedEntries
          /\ ~last'.arg.abs
          /\ \A i \in 1..Len(last'.arg.parts) : last'.arg.parts[i] # "..x" ) =>
            RoutingHolds ]_vars

\* The dirents of a sequence that came with their whole name, as entries.
RECURSIVE Yielded(_)
Yielded(got) ==
    IF got = <<>> THEN <<>>
    ELSE IF Head(got).name = Head(got).d_namlen
    THEN <<Entry(Head(got).d_ino, Head(got).d_namlen)>> \o Yielded(Tail(got))
    ELSE Yielded(Tail(got))

\* C18: the loop (cookie 0, then the d_next of the last dirent, until a call
\* uses less than the whole buffer) gets, when it is done, every entry of
\* the listing once and in the listing's order; and it ends: a call that
\* does not end it hands out at least one more dirent, so the calls that do
\* not end it are no more than the cookie reached.
C18_PaginationYieldsListing ==
    /\ client.state = "done" => Yielded(client.got) = listing
    /\ client.state = "listing" => client.calls <= client.cookie

\* The dirents handed out, whole names or not, are the listing in order.
C18_HeadersInOrder ==
    client.state = "done" =>
        /\ Len(client.got) = Len(listing)
        /\ \A i \in 1..Len(client.got) :
               /\ client.got[i].d_ino = listing[i].ino
               /\ client.got[i].d_namlen = listing[i].namlen
               /\ client.got[i].d_next = i

\* C19: fd_readdir with a cookie other than 0 on a descriptor (a live
\* directory that holds fd_readdir) for which no snapshot is kept answers
\* success with 0 bytes used, calls no driver and keeps no snapshot.
C19_CookieWithoutSnapshotEndsList ==
    [][ ( /\ last' # NoLast
          /\ last'.entry = "fd_readdir"
          /\ last'.arg[1] # 0
          /\ Checks(last'.fd, "fd_readdir", TRUE) = Ok
          /\ directoryEntries[last'.fd] = <<>> ) =>
            /\ last'.errno = "success"
            /\ last'.out.used = 0
            /\ last'.out.entries = <<>>
            /\ last'.call = NoCall
            /\ directoryEntries' = directoryEntries
      ]_vars

\* The call after a listing was exhausted: the preopened directory of /a
\* was listed before, no snapshot is left, and the call with cookie 2 ends
\* the list.
C19_Witness ==
    /\ last.entry = "fd_readdir"
    /\ last.arg[1] = 2
    /\ roots["A"] # NoFd
    /\ last.fd = roots["A"].fd
    /\ listing # <<>>
    /\ directoryEntries[last.fd] = <<>>
    /\ last.errno = "success"
    /\ last.out.used = 0
    /\ last.call = NoCall

\* C20: no snapshot is kept for a number whose descriptor was closed.
C20_NoSnapshotAfterClose ==
    \A fd \in FdIds : ~Live(fd) => directoryEntries[fd] = <<>>

\* The ranges recorded at marshalling, in the order of the parameters.
RECURSIVE Recorded(_)
Recorded(reverse) ==
    IF reverse = <<>> THEN <<>> ELSE Head(reverse).ranges \o Recorded(Tail(reverse))

Covering(flat, a) ==
    {i \in 1..Len(flat) : a >= flat[i].to /\ a < flat[i].to + flat[i].size}

Latest(indices) == CHOOSE i \in indices : \A j \in indices : j <= i

\* C12: when call has returned, the module's memory differs from what it
\* was before the call only if the errno is success, and then only in the
\* ranges recorded at marshalling: each cell of a recorded range holds the
\* byte of the second buffer at the recorded offset (of the last range that
\* covers it), every other cell what it held before.
C12_ReverseTransfer ==
    xfer.phase = "returned" =>
        LET flat == Recorded(xfer.reverse)
        IN  \A a \in Addr :
                IF xfer.errno = "success" /\ Covering(flat, a) # {}
                THEN LET r == flat[Latest(Covering(flat, a))]
                     IN  wasmMemory[a] = resultBuffer[r.from + (a - r.to)]
                ELSE wasmMemory[a] = OriginalByte(a)

\* A call with a number, then a pointer whose result lies in two places:
\* it returned success and both places hold the service's bytes.
C12_Witness ==
    /\ xfer.phase = "returned"
    /\ xfer.errno = "success"
    /\ Len(xfer.params) = 2
    /\ xfer.params[1] = Number
    /\ xfer.params[2] = Item("multi", <<Part(3, 1), Part(0, 1)>>)
    /\ wasmMemory[3] = 1
    /\ wasmMemory[0] = 0
    /\ wasmMemory[1] = OriginalByte(1)

\* ------------------------------------------------------------------------
\* Properties of the fast path of poll_oneoff
\* ------------------------------------------------------------------------
SingleInstantClock ==
    /\ Len(poll.subs) = 1
    /\ poll.subs[1].type = "clock"
    /\ poll.subs[1].timeout = 0
    /\ ~poll.subs[1].abstime

\* C21: poll_oneoff called with exactly one clock subscription whose timeout
\* is zero and which is not absolute has returned as soon as it was called:
\* it never waits on the shared cell and posts no call; it returns success
\* with exactly one event, a clock event with the subscription's userdata
\* and error success.
C21_ZeroClockReturnsAtOnce ==
    (poll.calls > 0 /\ SingleInstantClock) =>
        /\ poll.pc = "idle"
        /\ poll.how = "fast"
        /\ ~poll.slept
        /\ poll.ret = "success"
        /\ poll.events = <<EventOf(poll.subs[1].userdata, "clock", "success", 0)>>

C21_Witness ==
    /\ poll.calls > 0
    /\ SingleInstantClock
    /\ poll.ret = "success"
    /\ Len(poll.events) = 1
    /\ poll.events[1].userdata = ClockUserdata

SingleStdinRead ==
    /\ Len(poll.subs) = 1
    /\ poll.subs[1].type = "fd_read"
    /\ poll.subs[1].fd = StdinFd

\* C22: poll_oneoff with a single fd_read subscription on stdin does not
\* sleep when the pipe holds bytes at the call, and whenever it has returned
\* it has returned exactly one fd_read event, with a positive byte count
\* that is at least the count buffered at the call.
C22_StdinReadReturnsOneEvent ==
    (poll.calls > 0 /\ SingleStdinRead) =>
        /\ poll.atCall > 0 => ~poll.slept
        /\ poll.pc = "idle" =>
              /\ poll.ret = "success"
              /\ Len(poll.events) = 1
              /\ poll.events[1].type = "fd_read"
              /\ poll.events[1].userdata = poll.subs[1].userdata
              /\ poll.events[1].nbytes > 0
              /\ poll.events[1].nbytes >= poll.atCall

NoEmptyWrite == \A w \in Writers : wr[w].pc = "done" => wr[w].size > 0

\* The same statement for runs in which no chunk of 0 bytes was written.
C22_StdinReadOfNonEmptyWrites ==
    NoEmptyWrite => C22_StdinReadReturnsOneEvent

C22_SleptThenReturned ==
    /\ poll.calls > 0
    /\ SingleStdinRead
    /\ NoEmptyWrite
    /\ poll.slept
    /\ poll.pc = "idle"
    /\ Len(poll.events) = 1

\* ------------------------------------------------------------------------
\* Properties of the process life cycle
\* ------------------------------------------------------------------------
Succeeded == {c \in Initializers : initialize[c].pc = "done"}

\* C23: initialize() takes effect at most once per process: of the
\* initialize() calls made, overlapping or not, at most one succeeds, and
\* the stdio pipes are set up at most once.
C23_InitializeTakesEffectOnce ==
    /\ Cardinality(Succeeded) <= 1
    /\ pipes <= 1

StartedRuns == {r \in Runners : runCall[r].pc \notin {"idle", "failed"}}

\* C24: at most one run() of a process does not fail, and when no
\* terminate() was called its promise, once resolved, carries the exit code
\* the module passed to proc_exit, or 0 when the worker finished without
\* calling proc_exit.
C24_RunResolvesWithExitCode ==
    /\ Cardinality(StartedRuns) <= 1
    /\ \A r \in Runners :
           (runCall[r].pc = "resolved" /\ teardown["terminate"].pc = "idle") =>
               runCall[r].result = (IF exitCode # -1 THEN exitCode ELSE 0)

InitializedOnce == Cardinality(Succeeded) <= 1

\* The same statement for processes on which one initialize() succeeded.
C24_RunOfProcessInitializedOnce ==
    InitializedOnce => C24_RunResolvesWithExitCode

C24_ResolvedByExitCode ==
    /\ InitializedOnce
    /\ \E r \in Runners : runCall[r].pc = "resolved" /\ runCall[r].result = 3
    /\ \E r \in Runners : runCall[r].pc = "failed"
    /\ teardown["terminate"].pc = "idle"

Called(t) == IF log[t] = <<>> THEN 0 ELSE log[t][1][2]

\* C25: when terminate() has returned, its result is 0 and the run()
\* promise that was pending when it was called is no longer pending.
C25_TerminateResolvesPendingRun ==
    teardown["terminate"].pc = "done" =>
        /\ teardown["terminate"].result = 0
        /\ Called("terminate") # 0 => runCall[Called("terminate")].pc # "pending"

\* The same statement for processes on which one initialize() succeeded.
C25_TerminateOfProcessInitializedOnce ==
    InitializedOnce => C25_TerminateResolvesPendingRun

C25_RunResolvedByTerminate ==
    /\ InitializedOnce
    /\ teardown["terminate"].pc = "done"
    /\ Called("terminate") # 0
    /\ runCall[Called("terminate")].by = "terminate"

\* The place of an event in the order worker, streams, disposers, result.
Rank(event) ==
    CASE event[1] = "call" -> 0
      [] event[1] = "worker" -> 1
      [] event[1] \in {"stdin", "stdout", "stderr"} -> 2
      [] event[1] = "dispose" -> 3
      [] event[1] = "resolve" -> 4

Did(t, what) == \E i \in 1..Len(log[t]) : log[t][i][1] = what

Disposed(t) ==
    SelectSeq(log[t], LAMBDA event : event[1] = "dispose")

C27_StreamsDestroyedAtExit ==
    (\E r \in Runners : runCall[r].pc = "resolved") =>
        \A n \in {"stdin", "stdout", "stderr"} :
            /\ \E u \in Teardowns : Did(u, n)
            /\ stdio[n] = 0

FailedNow(c) ==
    /\ initialize[c].pc # "failed"
    /\ initialize'[c].pc = "failed"
    /\ initialize'[c].why \in {"args", "root", "manifest"}

\* C28: an initialize() that fails on an argument, on the root mount or on
\* a manifest leaves the state as it was; and as long as no initialize() of
\* the process has succeeded, the state is 'created', every run() called
\* has failed and no worker exists.
C28_FailedInitializeStartsNothing ==
    /\ [][(\E c \in Initializers : FailedNow(c)) =>
              /\ state' = state
              /\ stdio' = stdio
              /\ mainWorker' = mainWorker]_vars
    /\ [](Succeeded = {} =>
              /\ state = "created"
              /\ \A r \in Runners : runCall[r].pc \in {"idle", "failed"}
              /\ mainWorker = "undefined")

C28_Witness ==
    /\ \E c \in Initializers : initialize[c].why = "args"
    /\ \E c \in Initializers : initialize[c].why = "manifest"
    /\ \E r \in Runners : runCall[r].pc = "failed"
    /\ Succeeded = {}

C28_RootWitness ==
    /\ \E c \in Initializers : initialize[c].why = "root"
    /\ Succeeded = {}

RootEntries == {i \in 1..Len(preOpenDirectories) : preOpenDirectories[i].mountPoint = "/"}

NonRootMounts == MountPointsOf(preOpenDirectories) \ {"/"}

\* The options mount '/' together with another mount point.
RootAndOther ==
    /\ \E i \in 1..Len(Lookups(options)) : Lookups(options)[i].mountPoint = "/"
    /\ \E i \in 1..Len(Lookups(options)) : Lookups(options)[i].mountPoint # "/"

\* C29: no initialize() succeeds when '/' is mounted together with another
\* mount point; after a successful initialize() the preopen map has at most
\* one entry for '/', and when it has a mount point other than '/', the
\* entry of '/' is the root driver, built over exactly the other mount
\* points and present in the local registry.
C29_RootMount ==
    /\ RootAndOther => Succeeded = {}
    /\ Succeeded # {} =>
           /\ Cardinality(RootEntries) <= 1
           /\ NonRootMounts # {} =>
                  /\ \E i \in RootEntries : preOpenDirectories[i].driver = RootUri
                  /\ virtualRootFileSystem = NonRootMounts
                  /\ RootUri \in localDeviceDrivers

C29_Witness ==
    /\ Succeeded # {}
    /\ NonRootMounts = {"/workspaces/a", "/workspaces/b", "/ext"}

C29_RootRefused ==
    /\ RootAndOther
    /\ \E c \in Initializers : initialize[c].why = "root"

\* The mounts of the options under whose URI the argument lies.
MountsOver(arg) ==
    {i \in 1..Len(Lookups(options)) : UriStartsWith(arg, Lookups(options)[i].uri)}

UriArgs ==
    IF options.args = "undefined" THEN {}
    ELSE {i \in 1..Len(options.args) : options.args[i].kind = "uri"}

\* C30: after a successful initialize() the arguments handed to the module
\* are those of the options, in order: a string as it is, and a URI as the
\* mount point of a driver it lies under, followed by its path relative to
\* that driver's URI; and no initialize() succeeds when a URI argument lies
\* under no mounted driver.
C30_ArgumentsMapped ==
    /\ (\E i \in UriArgs : MountsOver(options.args[i].value) = {}) => Succeeded = {}
    /\ (Succeeded # {} /\ options.args # "undefined") =>
           /\ Len(environmentArgs) = Len(options.args)
           /\ \A i \in 1..Len(options.args) :
                  IF options.args[i].kind = "string"
                  THEN environmentArgs[i] = options.args[i]
                  ELSE \E k \in MountsOver(options.args[i].value) :
                           LET mount == Lookups(options)[k]
                               arg == options.args[i].value
                           IN  environmentArgs[i] =
                                   [kind |-> "path",
                                    value |-> Segments(mount.mountPoint)
                                                \o SubSeq(arg, Len(mount.uri) + 1, Len(arg))]

C30_Witness ==
    /\ Succeeded # {}
    /\ options.args # "undefined"
    /\ environmentArgs = <<StringArg("--lsp"),
                           [kind |-> "path", value |-> <<"workspace", "src", "a.agda">>]>>

C30_Unmapped ==
    /\ options.mountPoints # "undefined"
    /\ \E c \in Initializers : initialize[c].why = "args"

\* ------------------------------------------------------------------------
\* Properties of the registry, the file systems and the connection
\* ------------------------------------------------------------------------
\* The drivers registered in a layer.
DriversOf(reg) == {reg.devices[i].value : i \in 1..Len(reg.devices)}

\* What a lookup through a local layer must give for the drivers ds that
\* have the key locally and gs that have it globally.
Layered(result, ds, gs) ==
    IF ds # {} THEN result.error = "none" /\ result.driver \in ds
    ELSE IF gs # {} THEN result.error = "none" /\ result.driver \in gs
    ELSE result.error = "nxio"

NoDuplicates(seq) == \A i, j \in 1..Len(seq) : seq[i] = seq[j] => i = j

\* C31: through the local registry of every process, get and getByUri give
\* a driver registered locally under the key when there is one, otherwise
\* one registered globally, otherwise 'no such device'; and size and
\* iteration report every registered driver exactly once.
C31_LayeredRegistry ==
    \A p \in Processes :
        LET local == registries[p]
            all == DriversOf(local) \cup DriversOf(kernelDrivers)
        IN  /\ \A id \in RegIds :
                   Layered(LocalGet(local, kernelDrivers, id),
                           {d \in DriversOf(local) : d.id = id},
                           {d \in DriversOf(kernelDrivers) : d.id = id})
            /\ \A uri \in RegUris :
                   Layered(LocalGetByUri(local, kernelDrivers, uri),
                           {d \in DriversOf(local) : d.uri = uri},
                           {d \in DriversOf(kernelDrivers) : d.uri = uri})
            /\ LocalSize(local, kernelDrivers) = Cardinality(all)
            /\ NoDuplicates(LocalEntries(local, kernelDrivers))
            /\ {LocalEntries(local, kernelDrivers)[i] :
                    i \in 1..Len(LocalEntries(local, kernelDrivers))} = all

IdsOf(reg) == {d.id : d \in DriversOf(reg)}

\* The two maps of a layer hold the same drivers, one per URI.
MapsAgree(reg) ==
    /\ {reg.devicesByUri[i].value : i \in 1..Len(reg.devicesByUri)} = DriversOf(reg)
    /\ Len(reg.devicesByUri) = Len(reg.devices)

\* No id is registered in two layers at once, and no URI twice in a layer.
LayersApart ==
    /\ MapsAgree(kernelDrivers)
    /\ \A p \in Processes :
           /\ MapsAgree(registries[p])
           /\ IdsOf(registries[p]) \cap IdsOf(kernelDrivers) = {}

\* The same statement for layers that share no id and hold no URI twice.
C31_OfLayersApart == LayersApart => C31_LayeredRegistry

C31_BothLayersUsed ==
    /\ LayersApart
    /\ \E p \in Processes : IdsOf(registries[p]) # {} /\ IdsOf(kernelDrivers) # {}
    /\ thrown = "nxio"

\* A removal takes drivers out of one layer only, and one that fails with
\* 'no such device' changes nothing.
C31_RemoveTouchesOneLayer ==
    [][/\ (IdsOf(kernelDrivers') # IdsOf(kernelDrivers)) => registries' = registries
       /\ \A p \in Processes :
              (IdsOf(registries'[p]) # IdsOf(registries[p])) =>
                  /\ kernelDrivers' = kernelDrivers
                  /\ \A q \in Processes \ {p} : registries'[q] = registries[q]
       /\ thrown' = "nxio" =>
              kernelDrivers' = kernelDrivers /\ registries' = registries]_vars

Answered(uri) == {c \in GetOrCreateCalls : fsCalls[c].pc = "done" /\ fsCalls[c].uri = uri}

\* C32: for every URI at most one driver is ever created, and all calls of
\* getOrCreateFileSystemByDescriptor for it that have returned, whichever
\* process made them, returned the same driver.
C32_OneDriverPerUri ==
    \A uri \in {d.uri : d \in Descriptors} :
        /\ Cardinality({d \in createdDrivers : d.uri = uri}) <= 1
        /\ \A c, e \in Answered(uri) : fsCalls[c].result = fsCalls[e].result

\* The same statement for the calls that never wait for a manifest.
C32_OneDriverPerFolder ==
    /\ Cardinality({d \in createdDrivers : d.uri = "A"}) <= 1
    /\ \A c, e \in Answered("A") : fsCalls[c].result = fsCalls[e].result

C32_FolderShared ==
    \E c, e \in Answered("A") :
        /\ fsCalls[c].process # fsCalls[e].process
        /\ fsCalls[c].result = fsCalls[e].result

\* Without overlap: when no call was suspended while another was made.
C32_SequentialCalls ==
    \E c, e \in Answered("B") :
        /\ c # e
        /\ fsCalls[c].result = fsCalls[e].result

\* C33: the serials of the requests are all different; the continuation of
\* a serial is invoked at most once, and only while it is pending; a
\* message for a serial that was never issued or was already answered
\* invokes nothing; and a message changes no entry but the one it answers.
C33_OneResolutionPerSerial ==
    /\ [](/\ NoDuplicates(serials)
          /\ \A s \in Serials :
                 /\ Len(invoked[s]) <= 1
                 /\ s >= connNext => invoked[s] = <<>> /\ connPending[s] = "undefined")
    /\ [][/\ \A s \in Serials :
                 invoked'[s] # invoked[s] =>
                     /\ connPending[s] = "resolve"
                     /\ \A t \in Serials \ {s} :
                            invoked'[t] = invoked[t] /\ connPending'[t] = connPending[t]
          /\ (invoked' = invoked /\ connNext' = connNext) =>
                 connPending' = connPending]_vars

C33_Witness ==
    /\ variant = "null"
    /\ invoked[0] # <<>>
    /\ connPending[0] = "null"
    /\ connPending[1] = "resolve"
    /\ invoked[2] # <<>>

\* ------------------------------------------------------------------------
\* Properties of suspended writers and readers
\* ------------------------------------------------------------------------
\* C34: a write resumed after its wait for space never throws 'Invalid
\* state: fillLevel should be <= ...': on a pipe that was not destroyed no
\* write call ends by throwing.
C34_ResumedWriterFindsItsLevel ==
    ~destroyed => \A w \in Writers : wr[w].pc # "threw"

\* C35: a read resumed after its wait for data never throws 'Invalid state:
\* no bytes available after awaiting data': a suspended read that ends by
\* throwing found the pipe with a chunk (its throw is then the one of the
\* copy loop).
C35_ResumedReaderFindsData ==
    [][\A r \in Readers :
           (~destroyed /\ rd[r].pc = "awaitData" /\ rd'[r].pc = "threw")
               => chunks # <<>>]_vars

\* C36: once every continuation that was made ready has run, no read is
\* suspended while the pipe holds a chunk.
C36_NoReaderSuspendedOverData ==
    (~destroyed /\ microtasks = <<>> /\ chunks # <<>>)
        => \A r \in Readers : rd[r].pc # "awaitData"

\* C37: a write of a chunk larger than the buffer is not left suspended on
\* an empty pipe with no continuation ready to run, where only a further
\* call could wake it.
C37_OversizedWriteNotStranded ==
    \A w \in Writers :
        ~(/\ ~destroyed
          /\ wr[w].pc = "awaitSpace"
          /\ wr[w].size > BufferSize
          /\ promise[WriteOp(w)] = "pending"
          /\ chunks = <<>>
          /\ fillLevel = 0
          /\ microtasks = <<>>)

\* ------------------------------------------------------------------------
\* Properties of the end of a process
\* ------------------------------------------------------------------------
\* How often the disposer of descriptor fd has been called, by proc_exit,
\* terminate() and the workerDone handler together.
RECURSIVE DisposalsIn(_, _)
DisposalsIn(ts, fd) ==
    IF ts = {} THEN 0
    ELSE LET t == CHOOSE x \in ts : TRUE
         IN  Cardinality({i \in 1..Len(log[t]) : log[t][i] = <<"dispose", fd>>})
                 + DisposalsIn(ts \ {t}, fd)

\* C38: the disposer of each descriptor is called at most once.
C38_DisposedAtMostOnce ==
    \A i \in 1..Len(remaining) : DisposalsIn(Teardowns, remaining[i]) <= 1

StateRank(s) ==
    CASE s = "created" -> 0
      [] s = "initialized" -> 1
      [] s = "running" -> 2
      [] s = "exiting" -> 3
      [] s = "exited" -> 4

\* C39: the state never moves backwards, never leaves 'exited', and a
\* run() result, once set, is never set again.
C39_StateMovesForward ==
    [][/\ StateRank(state') >= StateRank(state)
       /\ \A r \in Runners :
              runCall[r].pc = "resolved" => runCall'[r] = runCall[r]]_vars

\* ------------------------------------------------------------------------
\* Properties of the fast path of poll_oneoff
\* ------------------------------------------------------------------------
ClockSubscriptions(subs) == {i \in 1..Len(subs) : subs[i].type = "clock"}

ClockEvents(events) == {k \in 1..Len(events) : events[k].type = "clock"}

\* C40: the subscription the loop reads in iteration i is subscription i;
\* and when the fast path returns there is one clock event for each clock
\* subscription, with the subscription's userdata, and every read event
\* carries a byte count above zero and the userdata of a stdin read.
C40_FastPathEvents ==
    /\ poll.pc \in {"wait", "sleeping", "load"} => poll.subscription_offset = poll.i
    /\ (poll.pc = "idle" /\ poll.how = "fast") =>
        /\ Cardinality(ClockEvents(poll.events))
               = Cardinality(ClockSubscriptions(poll.subs))
        /\ \A k \in 1..Len(poll.events) :
               /\ poll.events[k].type = "clock" =>
                      poll.events[k].userdata = ClockUserdata
               /\ poll.events[k].type = "fd_read" =>
                      /\ poll.events[k].nbytes > 0
                      /\ poll.events[k].userdata = ReadUserdata

\* With the stdin read behind every clock the clock events are complete.
C40_ClocksFirst ==
    (/\ poll.pc = "idle" /\ poll.how = "fast"
     /\ \A i \in 1..Len(poll.subs) :
            poll.subs[i].type = "fd_read" =>
                \A j \in (i + 1)..Len(poll.subs) : poll.subs[j].type = "fd_read")
        => Cardinality(ClockEvents(poll.events))
               = Cardinality(ClockSubscriptions(poll.subs))

C40_ClockAfterRead ==
    /\ poll.pc = "idle" /\ poll.how = "fast"
    /\ Len(poll.subs) = 2
    /\ poll.subs[1].type = "clock"
    /\ poll.subs[2].type = "fd_read"
    /\ Len(poll.events) = 1

====
